---- MODULE Spec2Model ----
(***************************************************************************)
(* Droid Toolbox: the connection lifecycle of connect.py and the control   *)
(* loop of toolbox.py that drives it.                                      *)
(*                                                                         *)
(* Two specifications share the variables of the session object:          *)
(*   Spec        the whole program: the control loop (DroidToolbox.update),*)
(*               the connect_droid threads, the connect workers            *)
(*               (_connect_thread) with their event loops, and the         *)
(*               disconnect threads, interleaved statement by statement;   *)
(*   SessionSpec one DroidConnection with an opened link and one event     *)
(*               loop, driven by the coroutines callers schedule on it     *)
(*               (_write, disconnect) and by the link dropping.            *)
(***************************************************************************)
EXTENDS Integers, Sequences, FiniteSets, TLC

\* ------------------------------------------------------------------ bounds
\* connect requests (connect_droid threads, each starting at most one worker)
MaxAttempts == 2
\* perform_disconnect threads started and not yet run
MaxPd == 1
\* callbacks submitted to one loop and not yet run
MaxReady == 2
\* _write coroutines submitted to the session's loop
MaxTasks == 3
\* calls of DroidConnection.disconnect after the first one
MaxCalls == 2
\* motion frames process() submits during one visit of the remote menu
MaxMotion == 2
\* longest time a button is followed while held, in time units
MaxHold == 3
MaxSince == 3
MaxStarts == 2
MaxOps == 2
MaxLines == 16
MaxRead == 8
MaxPlays == 3
MaxSessions == 2
MaxVisits == 2
QueueMax == 3
\* input.py:70  Input._initial_delay (0.35 s), in the same time units
InitialDelay == 2
\* remote.py:8  DEADZONE (0.15), in hundredths as every axis value and speed below
DEADZONE == 15
\* remote.py:101  the change of speed above which _update_motor issues a command (0.05)
SettleDelay == 2
StopBelow == 5
MotorStep == 5
\* remote.py:102  the limit speeds are clamped to (1.0)
FullSpeed == 100
\* remote.py:76, 86  the magnitude above which a sphere value counts as moving (0.05)
BBMoving == 5
\* remote.py:77, 87  the change above which a sphere command is issued (0.02)
BBStep == 2

Attempts == 1..MaxAttempts
Tasks == 1..MaxTasks

\* None for references (conn.client, conn.loop, active_mac, active_name)
None == 0

VARIABLES
    \* ---- ConnectionManager (connect.py:96-104)
    is_connecting,   \* self.is_connecting
    last_error,      \* self.last_error: "None" or the error string's kind
    active_mac,      \* self.active_mac: None or the peer of an attempt
    active_name,     \* self.active_name
    \* ---- DroidConnection (connect.py:21-25)
    client,          \* self.client: None or the BleakClient made by attempt a
    linkUp,          \* linkUp[a]: BleakClient a's is_connected (the radio link)
    connLoop,        \* self.loop: None or the event loop made by worker a
    \* ---- event loops of the workers
    loopState,       \* loopState[a]: "none", "open", "running", "closed"
    ready,           \* ready[a]: callbacks submitted thread-safely to loop a
    discWait,        \* discWait[a]: clients whose disconnect() a coroutine on loop a awaits
    \* ---- threads
    pc,              \* pc[a]: position of connect_droid thread a, then of its worker
    outcome,         \* outcome[a]: how DroidConnection.connect ended in worker a
    log,             \* log[a]: transport calls made by attempt a, in order
    pd,              \* perform_disconnect threads started and not yet run
    dd,              \* position of the disconnect_droid thread started by cleanup
    \* ---- DroidToolbox (toolbox.py:87-93)
    ctl,             \* position of the control loop inside update()
    current_view,    \* self.current_view
    submenu,         \* self.submenu
    errShown,        \* number of error strings update() handed to _show_progress
    requested,       \* a user disconnect request was made while is_connected
    \* ---- one session on one loop (SessionSpec)
    lock,            \* DroidConnection.lock: None or the task holding it
    waiters,         \* tasks waiting for the lock, first come first
    runq,            \* tasks scheduled on the loop and not yet started
    tpc,             \* tpc[t]: position of _write coroutine t
    wire,            \* write_gatt_char invocations, in order
    dpc,             \* position of the disconnect coroutine
    submitted,       \* number of _write coroutines submitted so far
    \* ---- repeated calls of DroidConnection.disconnect (SessionSpec)
    dcalls,          \* disconnect calls made after the first one
    snap,            \* <<client, linkUp>> as the previous disconnect call left them
    \* ---- the peer
    lost,            \* attempts whose link the peer dropped while theirs was the connected session
    \* ---- one call of a command method of ConnectionManager (BridgeSpec)
    meth,            \* the method called last, or "none"
    mpc,             \* its position: "idle", "check", "submit", "returned", "raised"
    mleft,           \* coroutines it has still to submit
    \* ---- one visit of the remote menu (RemoteSpec)
    rs,              \* position of the remote_stop thread that B starts, "none" before
    rq,              \* frames whose _write is scheduled on the loop, first come first
    rsub,            \* every frame submitted during the visit, in order
    rwire,           \* frames handed to write_gatt_char, in order
    \* ---- Input and the button state of RemoteControl (InputSpec)
    keys_pressed,    \* Input._keys_pressed, per mapped button
    keys_held,       \* Input._keys_held, per mapped button
    held_time,       \* time since the button went down (time.time() - start), in time units
    btn_pressed,     \* RemoteControl.state["BTN_<b>_PRESSED"]
    fired,           \* fired[b]: invocations of the method mapped to button b
    phys,            \* phys[b]: the physical button: "idle", "down", "up" (pressed once)
    ipc,             \* position of the control loop in its tick: "process", "clear"
    \* ---- the motion state of RemoteControl (ShaperSpec); values in hundredths
    active_profile,  \* DroidToolbox.active_profile
    LAST,            \* RemoteControl.state["LAST_<motor>"], default 0.0
    LAST_BB_DRIVE,   \* RemoteControl.state["LAST_BB_DRIVE"]
    LAST_BB_HEAD,    \* RemoteControl.state["LAST_BB_HEAD"]
    intent,          \* intent[k]: the speed the last tick passed to _update_motor for motor k
    emit,            \* emit[k]: <<v>> if the last tick called motor k's method with v, else <<>>
    lastEmitted,     \* lastEmitted[k]: the speed for which motor k's method was last called
    pending,         \* pending[k]: the command last issued for motor k was dropped
    bbIntent,        \* <<drive, head>> the last tick passed to _handle_bb_movement
    bbcmds,          \* the bb_drive / bb_rotate calls of the last tick, in order
    bbLast,          \* <<drive, head>> values for which bb_drive / bb_rotate were last called
    axes,            \* <<throttle, steer, head>> as the last tick read them, before _dz
    \* ---- the motor commands of ConnectionManager (CodecSpec)
    mcall,           \* <<[motor, speed]>>: the last motor method called and its argument
    mframe,          \* the packet that call handed to DroidConnection._write
    \* ---- one call of DroidConnection.send_audio (AudioSpec); time in units of 50 ms
    apc,             \* its position: "idle", "group", "sleep", "clip", "done"
    aargs,           \* <<group, clip>>
    awrites,         \* its write_gatt_char calls in order: [frame, ok, at]
    since,           \* time since the group write returned, capped at MaxSince
    aret,            \* what it returned: "none", "True", "False"
    \* ---- the beacon: BeaconManager, DroidBeacon, BluetoothCtl (BeaconSpec)
    stop_event,      \* DroidBeacon.stop_event
    beacon_lock,     \* DroidBeacon._lock: 0 free, else the loop thread inside _send_payload
    current_mfg_payload, \* BluetoothCtl.current_mfg_payload: "unset", "None" or "<id>:<data>"
    current_active,  \* DroidBeacon.current_active
    debug_payload,   \* DroidBeacon.debug_payload
    cmd_queue,       \* every line put on BluetoothCtl._cmd_queue so far: [cmd, by, call]
    nwritten,        \* how many of them _writer has written to bluetoothctl's stdin
    upc,             \* the UI thread: "idle", "lock" (stop() before its lock), "join" (after it)
    uop,             \* the handler it runs: "none", "X" (stop), "A" (start), "scan"
    utarget,         \* the beacon selected by that handler
    ustops,          \* stop() calls the handler still has to finish
    nops,            \* handlers run so far
    nstart,          \* BeaconManager._run calls that reached their thread start
    lpc,             \* lpc[i]: the thread running start_loop for start i
    kpc,             \* kpc[i]: the refresh loop thread of start i
    ktarget,         \* ktarget[i]: the beacon of start i
    beacon_thread,   \* DroidBeacon.thread: the start whose loop it is, 0 for None
    bstep,           \* the line broadcast_mfg sends next (1..6), 0 outside
    spc,             \* the scan thread in power_on: "none", "power", "info", "retry", "done"
    bcalls,          \* broadcast_mfg calls that passed the payload comparison
    prevPayload,     \* payload of the last finished broadcast_mfg call since the last stop_advertising
    lastcall,        \* <<[payload, lines, repeat]>>: that call, the lines it sent, prevPayload = payload
    runseqs,         \* sequences sent by the calls with that payload in a row
    stopped,         \* a stop() has returned and no start was requested since
    stopmark,        \* length of cmd_queue when it returned
    \* ---- the beacon one call at a time, in the toolbox or the console menu (PayloadSpec)
    prog,            \* which program runs: "none" yet, "toolbox" (src/app/beacon.py) or "cli" (src/ui.py, src/beacon.py)
    mfg_attr,        \* BluetoothCtl.current_mfg_payload: "unset" (no attribute), "None" or "set"
    mfg_payload,     \* its value when set: the manufacturer data bytes
    active,          \* DroidBeacon.current_active
    debug,           \* DroidBeacon.debug_payload, as bytes
    plines,          \* lines the last activate_* call put on the command queue
    wait_time,       \* wait_time of the last loop iteration, in tenths of a second
    perr,            \* "AttributeError" once it has ended the console menu, else "none"
    entry,           \* <<kind, faction, key>> of the last table entry activated, <<>> for none
    looping,         \* the refresh loop of the toolbox is running
    history,         \* "fresh" controller, "first" broadcast made on it with no stop before, "later"
    \* ---- the response queue of BluetoothCtl (ReaderSpec)
    resp_queue,      \* BluetoothCtl._queue: the buffered lines, oldest first
    rdpc,            \* _reader: "select", "put", "evict" (after queue.Full), "reput", "ended"
    rdline,          \* the line _reader holds
    nread,           \* lines read from bluetoothctl so far
    lastput,         \* how the last line was handled: "none", "put", "evicted", "lost"
    \* ---- the audio guard of ConnectionManager (GuardSpec)
    audio_in_progress,\* ConnectionManager.audio_in_progress
    ptask,           \* the _play_audio coroutines by request: "none", "queued", "group", "settle", "clip", "cooldown", "finished", "abandoned"
    gframes,         \* the audio frames written, each with the request it belongs to
    glink,           \* DroidConnection.is_connected of the session
    gloop,           \* the session's event loop: "running" or "closed"
    gstop,           \* loop.stop() was requested by disconnect_droid
    nplays,          \* audio requests submitted so far
    nsess,           \* sessions opened so far
    \* ---- visits of the remote menu (VisitSpec)
    vmenu,           \* where the connected view is: "remote", "none" (no submenu) or "main" (reverted)
    vpc,             \* the control thread: "idle", or "process" inside _update_remote_menu
    vlink,           \* ConnectionManager.is_connected
    st_LAST,         \* RemoteControl.state["LAST_<key>"] by motor, in hundredths
    submittedFor,    \* the speed of the most recent frame submitted for each motor (0: a stop frame)
    vstop,           \* the remote_stop thread: "none" or "pending"
    nvisits,         \* visits of the remote menu so far
    \* ---- the controller profile of the connected device (ProfileSpec)
    favorites,       \* OptionsManager.favorites by device: "absent", "nokey" (an entry without controller_profile) or the stored name
    loaded,          \* _load_settings has run
    profile_name,    \* the name process() was called with last ("None": not called yet)
    routed           \* what process() did with it: "none", "routed" or "ignored"

mgrVars == <<is_connecting, last_error, active_mac, active_name>>
connVars == <<client, linkUp, connLoop>>
loopVars == <<loopState, ready, discWait>>
threadVars == <<pc, outcome, log, pd, dd>>
uiVars == <<ctl, current_view, submenu, errShown, requested>>
sessVars == <<lock, waiters, runq, tpc, wire, dpc, submitted>>
discVars == <<dcalls, snap>>
bridgeVars == <<meth, mpc, mleft>>
remoteVars == <<rs, rq, rsub, rwire>>
inputVars == <<keys_pressed, keys_held, held_time, btn_pressed, fired, phys, ipc>>
shaperVars == <<active_profile, LAST, LAST_BB_DRIVE, LAST_BB_HEAD, intent, emit, lastEmitted, pending, bbIntent, bbcmds, bbLast, axes>>
codecVars == <<mcall, mframe>>
audioVars == <<apc, aargs, awrites, since, aret>>
beaconVars == <<stop_event, beacon_lock, current_mfg_payload, current_active, debug_payload,
                cmd_queue, nwritten, upc, uop, utarget, ustops, nops, nstart, lpc, kpc, ktarget,
                beacon_thread, bstep, spc, bcalls, prevPayload, lastcall, runseqs, stopped, stopmark>>
payloadVars == <<prog, mfg_attr, mfg_payload, active, debug, plines, wait_time, perr, entry, looping, history>>
readerVars == <<resp_queue, rdpc, rdline, nread, lastput>>
guardVars == <<audio_in_progress, ptask, gframes, glink, gloop, gstop, nplays, nsess>>
visitVars == <<vmenu, vpc, vlink, st_LAST, submittedFor, vstop, nvisits>>
profileVars == <<favorites, loaded, profile_name, routed>>
extVars == <<codecVars, audioVars, beaconVars, payloadVars, readerVars, guardVars, visitVars, profileVars>>
auxVars == <<bridgeVars, remoteVars, inputVars, shaperVars, extVars>>
appVars == <<discVars, lost, auxVars>>
vars == <<mgrVars, connVars, loopVars, threadVars, uiVars, sessVars, appVars>>

\* ------------------------------------------------------------ DroidConnection
\* connect.py:27-30  is_connected
ConnIsConnected == client # None /\ linkUp[client]

\* connect.py:106-109  ConnectionManager.is_connected
IsConnected == ConnIsConnected

\* ------------------------------------------------------------------ helpers
\* the connect request (thread) that the next press of A in the connect menu starts
NextAttempt == CHOOSE a \in Attempts : pc[a] = "unused" /\ \A b \in Attempts : pc[b] = "unused" => a <= b

\* a worker thread is alive from Thread.start() to the return of _connect_thread
WorkerPcs == {"w_loop", "w_find", "w_open", "w_linked", "w_seterr", "w_finally", "w_close"}
WorkerAlive(a) == pc[a] \in WorkerPcs

\* the connect coroutine of worker a is suspended in an await, so its loop runs other callbacks
LoopIdleAwait(a) == pc[a] \in {"w_find", "w_open"}

\* toolbox.py:153-165  _reset_to_main (the view state; the indexes and the status
\* line are display state)
ResetToMain ==
    /\ current_view' = "main"
    /\ submenu' = "none"

\* dicts.py:149-150  the buttons a controller profile maps to a method (SOUND, ACCESSORY)
Buttons == {"A", "Y"}

\* dicts.py:144-168  the controller profiles
Profiles == {"R-Arcade", "R-Racing", "BB-Arcade"}
Starts == 1..MaxStarts
Targets == {"Ronto Roasters", "Oil Baths"}

\* remote.py:57-59  the motors _apply_intents drives for R- profiles
Motors == {"LEFT", "RIGHT", "HEAD"}

\* the state of RemoteControl before its first tick, under profile p
ShaperStart(p) ==
    /\ active_profile = p
    /\ LAST = [k \in Motors |-> 0]
    /\ LAST_BB_DRIVE = 0
    /\ LAST_BB_HEAD = 0
    /\ intent = [k \in Motors |-> 0]
    /\ emit = [k \in Motors |-> <<>>]
    /\ lastEmitted = [k \in Motors |-> 0]
    /\ pending = [k \in Motors |-> FALSE]
    /\ bbIntent = <<0, 0>>
    /\ bbcmds = <<>>
    /\ bbLast = <<0, 0>>
    /\ axes = <<0, 0, 0>>

\* ------------------------------------------------------------------ Init
\* the state outside the connection lifecycle, as the constructors leave it
BaseInit ==
    /\ dcalls = 0
    /\ snap = <<None, [a \in Attempts |-> FALSE]>>
    /\ lost = {}
    /\ meth = "none" /\ mpc = "idle" /\ mleft = 0
    /\ rs = "none" /\ rq = <<>> /\ rsub = <<>> /\ rwire = <<>>
    /\ keys_pressed = [b \in Buttons |-> FALSE]
    /\ keys_held = [b \in Buttons |-> FALSE]
    /\ held_time = [b \in Buttons |-> 0]
    /\ btn_pressed = [b \in Buttons |-> FALSE]
    /\ fired = [b \in Buttons |-> 0]
    /\ phys = [b \in Buttons |-> "idle"]
    /\ ipc = "process"
    /\ mcall = <<>> /\ mframe = <<>>
    /\ apc = "idle" /\ aargs = <<0, 0>> /\ awrites = <<>> /\ since = 0 /\ aret = "none"
    /\ stop_event = FALSE /\ beacon_lock = 0
    /\ current_mfg_payload = "unset"
    /\ current_active = "None" /\ debug_payload = ""
    /\ cmd_queue = <<>> /\ nwritten = 0
    /\ upc = "idle" /\ uop = "none" /\ utarget = "Ronto Roasters" /\ ustops = 0 /\ nops = 0
    /\ nstart = 0
    /\ lpc = [i \in Starts |-> "none"]
    /\ kpc = [i \in Starts |-> "none"]
    /\ ktarget = [i \in Starts |-> "Ronto Roasters"]
    /\ beacon_thread = 0 /\ bstep = 0 /\ spc = "none"
    /\ bcalls = 0 /\ prevPayload = "" /\ lastcall = <<>> /\ runseqs = 0
    /\ stopped = FALSE /\ stopmark = 0
    /\ prog = "none" /\ mfg_attr = "unset" /\ mfg_payload = <<>>
    /\ active = "None" /\ debug = <<>> /\ plines = 0 /\ wait_time = 15
    /\ perr = "none" /\ entry = <<>> /\ looping = FALSE /\ history = "fresh"
    /\ resp_queue = <<>> /\ rdpc = "select" /\ rdline = 0 /\ nread = 0 /\ lastput = "none"
    /\ audio_in_progress = FALSE /\ ptask = [i \in 1..MaxPlays |-> "none"] /\ gframes = <<>>
    /\ glink = TRUE /\ gloop = "running" /\ gstop = FALSE /\ nplays = 0 /\ nsess = 1
    /\ vmenu = "remote" /\ vpc = "idle" /\ vlink = TRUE
    /\ st_LAST = [k \in {"LEFT", "RIGHT", "HEAD"} |-> 0]
    /\ submittedFor = [k \in {"LEFT", "RIGHT", "HEAD"} |-> 0]
    /\ vstop = "none" /\ nvisits = 1
    /\ favorites = [m \in {1, 2, 3} |-> "absent"] /\ loaded = FALSE
    /\ profile_name = "None" /\ routed = "none"

\* toolbox.py:670  the profile defaults to R-Arcade
AppInit == BaseInit /\ ShaperStart("R-Arcade")

Init ==
    /\ is_connecting = FALSE
    /\ last_error = "None"
    /\ active_mac = None
    /\ active_name = None
    /\ client = None
    /\ linkUp = [a \in Attempts |-> FALSE]
    /\ connLoop = None
    /\ loopState = [a \in Attempts |-> "none"]
    /\ ready = [a \in Attempts |-> <<>>]
    /\ discWait = [a \in Attempts |-> {}]
    /\ pc = [a \in Attempts |-> "unused"]
    /\ outcome = [a \in Attempts |-> "none"]
    /\ log = [a \in Attempts |-> <<>>]
    /\ pd = 0
    /\ dd = "none"
    /\ ctl = "update"
    /\ current_view = "main"
    /\ submenu = "none"
    /\ errShown = 0
    /\ requested = FALSE
    /\ lock = None
    /\ waiters = <<>>
    /\ runq = <<>>
    /\ tpc = [t \in Tasks |-> "unsubmitted"]
    /\ wire = <<>>
    /\ dpc = "none"
    /\ submitted = 0
    /\ AppInit

\* ------------------------------------------------- ConnectionManager.connect_droid
\* variant for sensitivity: connect_droid without its is_connecting guard
ConnectDroid_Check_NoGuard(a) ==
    /\ pc[a] = "cd_check"
    /\ pc' = [pc EXCEPT ![a] = "cd_set"]
    /\ UNCHANGED <<mgrVars, connVars, loopVars, outcome, log, pd, dd, uiVars, sessVars, appVars>>

\* connect.py:113-114  the guard: a request made while is_connecting returns at once
ConnectDroid_Check(a) ==
    /\ pc[a] = "cd_check"
    /\ pc' = [pc EXCEPT ![a] = IF is_connecting THEN "rejected" ELSE "cd_set"]
    /\ UNCHANGED <<mgrVars, connVars, loopVars, outcome, log, pd, dd, uiVars, sessVars, appVars>>

\* connect.py:116-121  the flags, the peer and the worker thread
ConnectDroid_Start(a) ==
    /\ pc[a] = "cd_set"
    /\ is_connecting' = TRUE
    /\ last_error' = "None"
    /\ active_mac' = a
    /\ active_name' = a
    /\ pc' = [pc EXCEPT ![a] = "w_loop"]
    /\ UNCHANGED <<connVars, loopVars, outcome, log, pd, dd, uiVars, sessVars, appVars>>

\* ------------------------------------------------ ConnectionManager._connect_thread
\* connect.py:125-130  new loop, conn.loop, run_until_complete(wait_for(connect));
\* connect.py:47-48    the coroutine runs up to its first await, the discovery
Worker_NewLoop(a) ==
    /\ pc[a] = "w_loop"
    /\ loopState' = [loopState EXCEPT ![a] = "running"]
    /\ connLoop' = a
    /\ log' = [log EXCEPT ![a] = Append(@, "find")]
    /\ pc' = [pc EXCEPT ![a] = "w_find"]
    /\ UNCHANGED <<mgrVars, client, linkUp, ready, discWait, outcome, pd, dd, uiVars, sessVars, appVars>>

\* connect.py:49-51  discovery found nothing: connect returns False
Connect_NotFound(a) ==
    /\ pc[a] = "w_find"
    /\ outcome' = [outcome EXCEPT ![a] = "notfound"]
    /\ loopState' = [loopState EXCEPT ![a] = "open"]
    /\ pc' = [pc EXCEPT ![a] = "w_seterr"]
    /\ UNCHANGED <<mgrVars, connVars, ready, discWait, log, pd, dd, uiVars, sessVars, appVars>>

\* connect.py:53-55  discovery found the peer: the client is made and link-open awaited
Connect_Found(a) ==
    /\ pc[a] = "w_find"
    /\ client' = a
    /\ log' = [log EXCEPT ![a] = Append(@, "open")]
    /\ pc' = [pc EXCEPT ![a] = "w_open"]
    /\ UNCHANGED <<mgrVars, linkUp, connLoop, loopVars, outcome, pd, dd, uiVars, sessVars, appVars>>

\* connect.py:55, 67-69  link-open raises: the handler drops the client, connect returns False
Connect_OpenRaises(a) ==
    /\ pc[a] = "w_open"
    /\ client' = None
    /\ outcome' = [outcome EXCEPT ![a] = "openraise"]
    /\ loopState' = [loopState EXCEPT ![a] = "open"]
    /\ pc' = [pc EXCEPT ![a] = "w_seterr"]
    /\ UNCHANGED <<mgrVars, linkUp, connLoop, ready, discWait, log, pd, dd, uiVars, sessVars, appVars>>

\* connect.py:130, 141-142  wait_for's 15 s end while link-open (10 s, after a 5 s
\* discovery) is awaited: the coroutine is cancelled where it stands, the client stays
Connect_Timeout(a) ==
    /\ pc[a] = "w_open"
    /\ outcome' = [outcome EXCEPT ![a] = "timeout"]
    /\ loopState' = [loopState EXCEPT ![a] = "open"]
    /\ pc' = [pc EXCEPT ![a] = "w_seterr"]
    /\ UNCHANGED <<mgrVars, connVars, ready, discWait, log, pd, dd, uiVars, sessVars, appVars>>

\* connect.py:55-56  link-open succeeds
Connect_Opened(a) ==
    /\ pc[a] = "w_open"
    /\ linkUp' = [linkUp EXCEPT ![a] = TRUE]
    /\ outcome' = [outcome EXCEPT ![a] = "opened"]
    /\ pc' = [pc EXCEPT ![a] = "w_linked"]
    /\ UNCHANGED <<mgrVars, client, connLoop, loopVars, log, pd, dd, uiVars, sessVars, appVars>>

\* connect.py:59-60, 67-69  the handshake loop: its first statement formats i, a name
\* bound nowhere (the loop variable is _), so NameError is raised before the first
\* _write; the handler drops the client without closing the link, connect returns False
Connect_Handshake(a) ==
    /\ pc[a] = "w_linked"
    /\ client' = None
    /\ outcome' = [outcome EXCEPT ![a] = "logonraise"]
    /\ loopState' = [loopState EXCEPT ![a] = "open"]
    /\ pc' = [pc EXCEPT ![a] = "w_seterr"]
    /\ UNCHANGED <<mgrVars, linkUp, connLoop, ready, discWait, log, pd, dd, uiVars, sessVars, appVars>>

\* the error string of each way run_until_complete ends without success
\* connect.py:132-134 (connect returned False), 141-142, 143-144
ErrorOf(o) ==
    CASE o = "timeout" -> "timeout"
      [] o = "stopped" -> "error"
      [] OTHER -> "failed"

Worker_SetError(a) ==
    /\ pc[a] = "w_seterr"
    /\ last_error' = ErrorOf(outcome[a])
    /\ pc' = [pc EXCEPT ![a] = "w_finally"]
    /\ UNCHANGED <<is_connecting, active_mac, active_name, connVars, loopVars, outcome, log, pd, dd, uiVars, sessVars, appVars>>

\* variant for sensitivity: a worker whose exit leaves is_connecting as it was
Worker_Finally_KeepsFlag(a) ==
    /\ pc[a] = "w_finally"
    /\ pc' = [pc EXCEPT ![a] = "w_close"]
    /\ UNCHANGED <<mgrVars, connVars, loopVars, outcome, log, pd, dd, uiVars, sessVars, appVars>>

\* connect.py:145-146  finally: is_connecting = False
Worker_Finally(a) ==
    /\ pc[a] = "w_finally"
    /\ is_connecting' = FALSE
    /\ pc' = [pc EXCEPT ![a] = "w_close"]
    /\ UNCHANGED <<last_error, active_mac, active_name, connVars, loopVars, outcome, log, pd, dd, uiVars, sessVars, appVars>>

\* a loop.stop submitted to loop a is still queued
StopQueued(a) == \E i \in 1..Len(ready[a]) : ready[a][i] = "stop"

\* connect.py:147-149, 86-90  finally: with a client that is still connected the loop
\* runs disconnect() to its end, then loop.close() drops the callbacks still queued.
\* A loop.stop queued on the loop runs in the first iteration of that
\* run_until_complete, which then raises RuntimeError out of the finally block: the
\* thread ends with the loop left open, the client kept, and client.disconnect()
\* begun but not awaited to its end (the link is down or still up)
Worker_Close(a) ==
    /\ pc[a] = "w_close"
    /\ IF ConnIsConnected /\ StopQueued(a)
       THEN /\ \E down \in BOOLEAN : linkUp' = [linkUp EXCEPT ![client] = ~down]
            /\ loopState' = [loopState EXCEPT ![a] = "open"]
            /\ UNCHANGED client
       ELSE /\ IF ConnIsConnected
               THEN /\ linkUp' = [linkUp EXCEPT ![client] = FALSE]
                    /\ client' = None
               ELSE UNCHANGED <<client, linkUp>>
            /\ loopState' = [loopState EXCEPT ![a] = "closed"]
    /\ ready' = [ready EXCEPT ![a] = <<>>]
    /\ discWait' = [discWait EXCEPT ![a] = {}]
    /\ pc' = [pc EXCEPT ![a] = "done"]
    /\ UNCHANGED <<mgrVars, connLoop, outcome, log, pd, dd, uiVars, sessVars, appVars>>

\* the peer drops the link of client a (client.is_connected turns False by itself)
PeerDrops(a) ==
    /\ linkUp[a]
    /\ linkUp' = [linkUp EXCEPT ![a] = FALSE]
    /\ lost' = IF client = a THEN lost \cup {a} ELSE lost
    /\ UNCHANGED <<mgrVars, client, connLoop, loopVars, threadVars, uiVars, sessVars, discVars, auxVars>>

\* ---------------------------------------- callbacks other threads submit to a loop
\* connect.py:86-90  a submitted DroidConnection.disconnect starts on loop a
Loop_RunDisconnect(a) ==
    /\ LoopIdleAwait(a)
    /\ ready[a] # <<>> /\ Head(ready[a]) = "disconnect"
    /\ ready' = [ready EXCEPT ![a] = Tail(@)]
    /\ IF ConnIsConnected
       THEN /\ discWait' = [discWait EXCEPT ![a] = @ \cup {client}]
            /\ UNCHANGED client
       ELSE /\ client' = None
            /\ UNCHANGED discWait
    /\ UNCHANGED <<mgrVars, linkUp, connLoop, loopState, threadVars, uiVars, sessVars, appVars>>

\* connect.py:89-90  client.disconnect() returns: the link is down, the client dropped
Loop_DisconnectDone(a, c) ==
    /\ LoopIdleAwait(a)
    /\ c \in discWait[a]
    /\ discWait' = [discWait EXCEPT ![a] = @ \ {c}]
    /\ linkUp' = [linkUp EXCEPT ![c] = FALSE]
    /\ client' = None
    /\ UNCHANGED <<mgrVars, connLoop, loopState, ready, threadVars, uiVars, sessVars, appVars>>

\* connect.py:189, 130, 143-144  a submitted loop.stop ends run_until_complete with
\* RuntimeError (the future is not done); the connect coroutine stays suspended
Loop_RunStop(a) ==
    /\ LoopIdleAwait(a)
    /\ ready[a] # <<>> /\ Head(ready[a]) = "stop"
    /\ ready' = [ready EXCEPT ![a] = Tail(@)]
    /\ outcome' = [outcome EXCEPT ![a] = "stopped"]
    /\ loopState' = [loopState EXCEPT ![a] = "open"]
    /\ pc' = [pc EXCEPT ![a] = "w_seterr"]
    /\ UNCHANGED <<mgrVars, connVars, discWait, log, pd, dd, uiVars, sessVars, appVars>>

\* --------------------------------------------------------- DroidToolbox.update
\* toolbox.py:740-754  update() up to the dispatch: auto-transition to the connected
\* view, auto-revert on connection loss, then the error string is captured, cleared
\* and shown
AutoView == IF IsConnected /\ current_view # "connected" /\ submenu = "none"
            THEN "connected" ELSE current_view

\* variant for sensitivity: update() without the auto-revert on connection loss
Update_NoRevert ==
    /\ ctl = "update"
    /\ current_view' = AutoView
    /\ IF last_error # "None"
       THEN /\ last_error' = "None"
            /\ is_connecting' = FALSE
            /\ errShown' = errShown + 1
       ELSE UNCHANGED <<last_error, is_connecting, errShown>>
    /\ ctl' = "view"
    /\ UNCHANGED <<submenu, active_mac, active_name, connVars, loopVars, threadVars, requested, sessVars, appVars>>

Update ==
    /\ ctl = "update"
    /\ IF (AutoView = "connected" \/ submenu # "none") /\ ~IsConnected
       THEN ResetToMain
       ELSE /\ current_view' = AutoView
            /\ UNCHANGED submenu
    /\ IF last_error # "None"
       THEN /\ last_error' = "None"
            /\ is_connecting' = FALSE
            /\ errShown' = errShown + 1
       ELSE UNCHANGED <<last_error, is_connecting, errShown>>
    /\ ctl' = "view"
    /\ UNCHANGED <<active_mac, active_name, connVars, loopVars, threadVars, requested, sessVars, appVars>>

\* toolbox.py:756-760  the view's update function; target is the submenu when one is open
Target == IF submenu # "none" THEN submenu ELSE current_view

\* no button is pressed in this tick (every view)
View_Idle ==
    /\ ctl = "view"
    /\ ctl' = "update"
    /\ UNCHANGED <<mgrVars, connVars, loopVars, threadVars, current_view, submenu, errShown, requested, sessVars, appVars>>

\* toolbox.py:247-255, 139-143  main menu, A on Connect: _change_view("connect")
UpdateMain_Connect ==
    /\ ctl = "view" /\ Target = "main"
    /\ current_view' = "connect"
    /\ submenu' = "none"
    /\ ctl' = "update"
    /\ UNCHANGED <<mgrVars, connVars, loopVars, threadVars, errShown, requested, sessVars, appVars>>

\* toolbox.py:256-257, 762-766  main menu, B: the loop ends and cleanup() runs, which
\* starts a disconnect_droid thread when connected
UpdateMain_Exit ==
    /\ ctl = "view" /\ Target = "main"
    /\ ctl' = "exited"
    /\ dd' = IF IsConnected THEN "check" ELSE dd
    /\ UNCHANGED <<mgrVars, connVars, loopVars, pc, outcome, log, pd, current_view, submenu, errShown, requested, sessVars, appVars>>

\* toolbox.py:527-554  connect menu, A on a favorite: a thread runs connect_droid
UpdateConnect_Select ==
    /\ ctl = "view" /\ Target = "connect"
    /\ ~is_connecting
    /\ \E a \in Attempts : pc[a] = "unused"
    /\ pc' = [pc EXCEPT ![NextAttempt] = "cd_check"]
    /\ ctl' = "update"
    /\ UNCHANGED <<mgrVars, connVars, loopVars, outcome, log, pd, dd, current_view, submenu, errShown, requested, sessVars, appVars>>

\* toolbox.py:556-558  connect menu, B
UpdateConnect_Back ==
    /\ ctl = "view" /\ Target = "connect"
    /\ ~is_connecting
    /\ ResetToMain
    /\ ctl' = "update"
    /\ UNCHANGED <<mgrVars, connVars, loopVars, threadVars, errShown, requested, sessVars, appVars>>

\* toolbox.py:592-613  _handle_disconnect
HandleDisconnect ==
    /\ is_connecting' = FALSE
    /\ IF IsConnected
       THEN /\ pd < MaxPd
            /\ pd' = pd + 1
            /\ requested' = TRUE
       ELSE UNCHANGED <<pd, requested>>
    /\ active_mac' = None
    /\ active_name' = None
    /\ ResetToMain

\* toolbox.py:577-588  connected menu, B, or A on Disconnect
UpdateConnected_Disconnect ==
    /\ ctl = "view" /\ Target = "connected"
    /\ HandleDisconnect
    /\ ctl' = "update"
    /\ UNCHANGED <<last_error, connVars, loopVars, pc, outcome, log, dd, errShown, sessVars, appVars>>

\* toolbox.py:583-590  connected menu, A on Play Audio or Run Script
UpdateConnected_Submenu(choice) ==
    /\ ctl = "view" /\ Target = "connected"
    /\ submenu' = choice
    /\ ctl' = "update"
    /\ UNCHANGED <<mgrVars, connVars, loopVars, threadVars, current_view, errShown, requested, sessVars, appVars>>

\* toolbox.py:637, 659  audio or script menu, B
UpdateSubmenu_Back ==
    /\ ctl = "view" /\ Target \in {"audio", "script"}
    /\ submenu' = "none"
    /\ ctl' = "update"
    /\ UNCHANGED <<mgrVars, connVars, loopVars, threadVars, current_view, errShown, requested, sessVars, appVars>>

\* ------------------------------------------------------------ disconnect threads
\* toolbox.py:597-607  perform_disconnect: the coroutine is submitted only to a loop
\* that is running; the thread then waits 2 s for it and swallows every exception
PerformDisconnect ==
    /\ pd > 0
    /\ pd' = pd - 1
    /\ IF connLoop # None /\ loopState[connLoop] = "running"
       THEN /\ Len(ready[connLoop]) < MaxReady
            /\ ready' = [ready EXCEPT ![connLoop] = Append(@, "disconnect")]
       ELSE UNCHANGED ready
    /\ UNCHANGED <<mgrVars, connVars, loopState, discWait, pc, outcome, log, dd, uiVars, sessVars, appVars>>

\* connect.py:187-189  disconnect_droid: disconnect and loop.stop are submitted
DisconnectDroid_Submit ==
    /\ dd = "check"
    /\ IF IsConnected /\ connLoop # None /\ loopState[connLoop] # "closed"
       THEN /\ Len(ready[connLoop]) + 2 <= MaxReady
            /\ ready' = [ready EXCEPT ![connLoop] = @ \o <<"disconnect", "stop">>]
       ELSE UNCHANGED ready
    /\ dd' = "clear"
    /\ UNCHANGED <<mgrVars, connVars, loopState, discWait, pc, outcome, log, pd, uiVars, sessVars, appVars>>

\* connect.py:191-193
DisconnectDroid_Clear ==
    /\ dd = "clear"
    /\ is_connecting' = FALSE
    /\ active_mac' = None
    /\ active_name' = None
    /\ dd' = "done"
    /\ UNCHANGED <<last_error, connVars, loopVars, pc, outcome, log, pd, uiVars, sessVars, appVars>>

\* ------------------------------------------------------------------ Spec
Next ==
    \/ \E a \in Attempts : ConnectDroid_Check(a)
    \/ \E a \in Attempts : ConnectDroid_Start(a)
    \/ \E a \in Attempts : Worker_NewLoop(a)
    \/ \E a \in Attempts : Connect_NotFound(a)
    \/ \E a \in Attempts : Connect_Found(a)
    \/ \E a \in Attempts : Connect_OpenRaises(a)
    \/ \E a \in Attempts : Connect_Timeout(a)
    \/ \E a \in Attempts : Connect_Opened(a)
    \/ \E a \in Attempts : Connect_Handshake(a)
    \/ \E a \in Attempts : Worker_SetError(a)
    \/ \E a \in Attempts : Worker_Finally(a)
    \/ \E a \in Attempts : Worker_Close(a)
    \/ \E a \in Attempts : Loop_RunDisconnect(a)
    \/ \E a \in Attempts : \E c \in Attempts : Loop_DisconnectDone(a, c)
    \/ \E a \in Attempts : Loop_RunStop(a)
    \/ \E a \in Attempts : PeerDrops(a)
    \/ Update
    \/ View_Idle
    \/ UpdateMain_Connect
    \/ UpdateMain_Exit
    \/ UpdateConnect_Select
    \/ UpdateConnect_Back
    \/ UpdateConnected_Disconnect
    \/ \E choice \in {"audio", "script"} : UpdateConnected_Submenu(choice)
    \/ UpdateSubmenu_Back
    \/ PerformDisconnect
    \/ DisconnectDroid_Submit
    \/ DisconnectDroid_Clear

Spec == Init /\ [][Next]_vars

\* the statements of a started thread run on (connect.py:121, toolbox.py:548, 609,
\* 766: every thread is started at once and blocks only in awaits that end by their
\* timeouts, connect.py:48, 53, 130)
ThreadStep(a) ==
    \/ ConnectDroid_Check(a)
    \/ ConnectDroid_Start(a)
    \/ Worker_NewLoop(a)
    \/ Connect_NotFound(a)
    \/ Connect_Found(a)
    \/ Connect_OpenRaises(a)
    \/ Connect_Timeout(a)
    \/ Connect_Opened(a)
    \/ Connect_Handshake(a)
    \/ Worker_SetError(a)
    \/ Worker_Finally(a)
    \/ Worker_Close(a)

\* a connect request is running: its thread or its worker has not ended
Busy(a) == pc[a] \notin {"unused", "rejected", "done"}

\* toolbox.py:546-554  A in the connect menu, pressed only when no earlier connect
\* request is still running
UpdateConnect_SelectSolo ==
    /\ \A a \in Attempts : ~Busy(a)
    /\ UpdateConnect_Select

\* main.py:96-98  the control loop calls update() every tick until it exits; its
\* user starts one session at a time
SoloTick ==
    \/ Update
    \/ View_Idle
    \/ UpdateMain_Connect
    \/ UpdateMain_Exit
    \/ UpdateConnect_SelectSolo
    \/ UpdateConnect_Back
    \/ UpdateConnected_Disconnect
    \/ \E choice \in {"audio", "script"} : UpdateConnected_Submenu(choice)
    \/ UpdateSubmenu_Back

\* the program used one session at a time. A loop then runs no submitted loop.stop
\* and awaits no submitted disconnect: both need a connected client while the
\* loop's own connect coroutine is suspended, that is, a second worker
SoloNext ==
    \/ \E a \in Attempts : ThreadStep(a)
    \/ \E a \in Attempts : Loop_RunDisconnect(a)
    \/ \E a \in Attempts : PeerDrops(a)
    \/ SoloTick
    \/ PerformDisconnect
    \/ DisconnectDroid_Submit
    \/ DisconnectDroid_Clear

\* one session at a time, with threads and a control loop that keep running: some
\* connect thread takes its next statement (they have finitely many), the
\* disconnect threads run, and the loop ticks
LiveSpec ==
    /\ Init /\ [][SoloNext]_vars
    /\ WF_vars(\E a \in Attempts : ThreadStep(a))
    /\ WF_vars(PerformDisconnect \/ DisconnectDroid_Submit \/ DisconnectDroid_Clear)
    /\ WF_vars(SoloTick)

\* ====================================================================== BridgeSpec
\* The command methods of ConnectionManager called from the control thread while
\* connect requests run: the connect threads and workers are those of Spec; the
\* caller stands for the views that issue commands (toolbox.py:643, 661, 676, 684).
Methods ==
    {"remote_throttle_left", "remote_throttle_right", "remote_head", "bb_drive", "bb_rotate",
     "remote_sound_random", "remote_accessory", "remote_stop", "run_action"}

\* connect.py:202, 238, 263, 275, 287, 152: the methods that test is_connected first;
\* bb_drive and bb_rotate (connect.py:223-235) submit at once
Guarded(m) == m \notin {"bb_drive", "bb_rotate"}

\* connect.py:292-295  remote_stop submits one frame per motor, the others one coroutine
Submissions(m) == IF m = "remote_stop" THEN 3 ELSE 1

\* connect.py:266, 158  the methods that return early while a clip is playing
AudioGated(m) == m \in {"remote_sound_random", "run_action"}

\* the test a guarded method makes before it submits (connect.py:152 for run_action)
PassesCheck(m) ==
    IF m = "run_action" THEN IsConnected /\ connLoop # None ELSE IsConnected

\* toolbox.py:546-554  a connect request is started
Bridge_Connect ==
    /\ mpc # "check" /\ mpc # "submit"
    /\ ~is_connecting
    /\ \E a \in Attempts : pc[a] = "unused"
    /\ pc' = [pc EXCEPT ![NextAttempt] = "cd_check"]
    /\ UNCHANGED <<mgrVars, connVars, loopVars, outcome, log, pd, dd, uiVars, sessVars, appVars>>

\* the control thread enters method m
Call_Begin(m) ==
    /\ mpc \in {"idle", "returned", "raised"}
    /\ meth' = m
    /\ mpc' = IF Guarded(m) THEN "check" ELSE "submit"
    /\ mleft' = Submissions(m)
    /\ UNCHANGED <<mgrVars, connVars, loopVars, threadVars, uiVars, sessVars, discVars, lost, extVars, remoteVars, inputVars, shaperVars>>

\* the is_connected test, then audio_in_progress where the method reads it (the flag
\* is written by _play_audio on the loop, connect.py:170-181: either value)
Call_Check ==
    /\ mpc = "check"
    /\ \E busy \in BOOLEAN :
        mpc' = IF PassesCheck(meth) /\ ~(AudioGated(meth) /\ busy) THEN "submit" ELSE "returned"
    /\ UNCHANGED <<meth, mleft>>
    /\ UNCHANGED <<mgrVars, connVars, loopVars, threadVars, uiVars, sessVars, discVars, lost, extVars, remoteVars, inputVars, shaperVars>>

\* asyncio.run_coroutine_threadsafe(coro, self.conn.loop): with no loop the call of
\* loop.call_soon_threadsafe raises AttributeError, with a closed loop it raises
\* RuntimeError; otherwise the coroutine is queued on the loop
Call_Submit ==
    /\ mpc = "submit"
    /\ IF connLoop = None \/ loopState[connLoop] = "closed"
       THEN /\ mpc' = "raised"
            /\ UNCHANGED mleft
       ELSE /\ mleft' = mleft - 1
            /\ mpc' = IF mleft = 1 THEN "returned" ELSE "submit"
    /\ UNCHANGED meth
    /\ UNCHANGED <<mgrVars, connVars, loopVars, threadVars, uiVars, sessVars, discVars, lost, extVars, remoteVars, inputVars, shaperVars>>

BridgeNext ==
    \/ \E a \in Attempts : ThreadStep(a)
    \/ \E a \in Attempts : PeerDrops(a)
    \/ Bridge_Connect
    \/ \E m \in Methods : Call_Begin(m)
    \/ Call_Check
    \/ Call_Submit

BridgeSpec == Init /\ [][BridgeNext]_vars

\* ===================================================================== SessionSpec
\* One DroidConnection whose link has been opened (the state connect.py:53-55 leaves:
\* client made and connected, its loop running), and the coroutines that callers
\* schedule on that loop. Each action is one step of a coroutine between two awaits.

SessionInit ==
    /\ is_connecting = TRUE
    /\ last_error = "None"
    /\ active_mac = 1
    /\ active_name = 1
    /\ client = 1
    /\ linkUp = [a \in Attempts |-> a = 1]
    /\ connLoop = 1
    /\ loopState = [a \in Attempts |-> IF a = 1 THEN "running" ELSE "none"]
    /\ ready = [a \in Attempts |-> <<>>]
    /\ discWait = [a \in Attempts |-> {}]
    /\ pc = [a \in Attempts |-> IF a = 1 THEN "w_linked" ELSE "unused"]
    /\ outcome = [a \in Attempts |-> IF a = 1 THEN "opened" ELSE "none"]
    /\ log = [a \in Attempts |-> IF a = 1 THEN <<"find", "open">> ELSE <<>>]
    /\ pd = 0
    /\ dd = "none"
    /\ ctl = "update"
    /\ current_view = "connect"
    /\ submenu = "none"
    /\ errShown = 0
    /\ requested = FALSE
    /\ lock = None
    /\ waiters = <<>>
    /\ runq = <<>>
    /\ tpc = [t \in Tasks |-> "unsubmitted"]
    /\ wire = <<>>
    /\ dpc = "none"
    /\ submitted = 0
    /\ AppInit

progVars == <<mgrVars, connLoop, loopVars, threadVars, uiVars>>

\* a queue with task t taken out
Without(q, t) == SelectSeq(q, LAMBDA x : x # t)

\* variant for sensitivity: _write without the lock
LockFree_Always == TRUE

\* connect.py:37  async with self.lock: asyncio.Lock is taken at once only when it is
\* free and nobody waits for it; otherwise the caller queues behind the waiters
LockFree == lock = None /\ waiters = <<>>

\* variant for sensitivity: a lock that wakes the latest waiter
LastWaiter(ws) == ws[Len(ws)]

\* asyncio.Lock.release wakes the waiter that has waited longest
FirstWaiter(ws) == Head(ws)

\* the loop starts the coroutines in the order run_coroutine_threadsafe queued them
FirstScheduled(q) == Head(q)

\* connect.py:39  self.client.write_gatt_char(...) is invoked by task t
Invoke(t) == wire' = Append(wire, [task |-> t, connected |-> ConnIsConnected])

\* connect.py:201-203, 209, 221  _send_motor_direct: a command issued while not
\* connected is dropped; otherwise _write(packet) is scheduled on the session's loop
SendMotorDirect(t) ==
    /\ t = submitted + 1
    /\ t \in Tasks
    /\ submitted' = t
    /\ IF IsConnected
       THEN /\ runq' = Append(runq, t)
            /\ tpc' = [tpc EXCEPT ![t] = "scheduled"]
       ELSE /\ tpc' = [tpc EXCEPT ![t] = "dropped"]
            /\ UNCHANGED runq
    /\ UNCHANGED <<progVars, appVars, client, linkUp, lock, waiters, wire, dpc>>

\* connect.py:34-39  _write up to its first await: the connected check, then the lock
\* (taken at once and the write invoked, or the task queues for the lock)
Write_Enter(t) ==
    /\ runq # <<>> /\ t = FirstScheduled(runq)
    /\ runq' = Without(runq, t)
    /\ IF ~ConnIsConnected
       THEN /\ tpc' = [tpc EXCEPT ![t] = "false_notconnected"]
            /\ UNCHANGED <<lock, waiters, wire>>
       ELSE IF LockFree
            THEN /\ lock' = t
                 /\ Invoke(t)
                 /\ tpc' = [tpc EXCEPT ![t] = "writing"]
                 /\ UNCHANGED waiters
            ELSE /\ waiters' = Append(waiters, t)
                 /\ tpc' = [tpc EXCEPT ![t] = "lockwait"]
                 /\ UNCHANGED <<lock, wire>>
    /\ UNCHANGED <<progVars, appVars, client, linkUp, dpc, submitted>>

\* connect.py:37-43  a task that waited for the lock gets it: with the client gone the
\* attribute lookup raises inside the try (False is returned, the lock released),
\* otherwise write_gatt_char is invoked on the client as it is now
Write_Acquired(t) ==
    /\ waiters # <<>> /\ t = FirstWaiter(waiters)
    /\ lock = None
    /\ waiters' = Without(waiters, t)
    /\ IF client = None
       THEN /\ tpc' = [tpc EXCEPT ![t] = "false_exception"]
            /\ UNCHANGED <<lock, wire>>
       ELSE /\ lock' = t
            /\ Invoke(t)
            /\ tpc' = [tpc EXCEPT ![t] = "writing"]
    /\ UNCHANGED <<progVars, appVars, client, linkUp, runq, dpc, submitted>>

\* variant for sensitivity: _write without its except clause: the exception leaves _write
WriteReturn_NoCatch(t, ok) ==
    /\ tpc' = [tpc EXCEPT ![t] = IF ok THEN "true" ELSE "raised"]
    /\ lock' = None
    /\ UNCHANGED client

\* connect.py:39-43  the transport write returns (True) or raises (caught, False);
\* either way leaving the async with block releases the lock
WriteReturn(t, ok) ==
    /\ tpc' = [tpc EXCEPT ![t] = IF ok THEN "true" ELSE "false_exception"]
    /\ lock' = None
    /\ UNCHANGED client

Write_Return(t, ok) ==
    /\ tpc[t] = "writing"
    /\ ok => linkUp[1]
    /\ WriteReturn(t, ok)
    /\ UNCHANGED <<progVars, appVars, linkUp, waiters, runq, wire, dpc, submitted>>

\* variant for sensitivity: a disconnect that closes the link whatever is_connected says
Disconnect_Enter_NoCheck ==
    /\ dpc = "none"
    /\ dpc' = "closing"
    /\ UNCHANGED <<progVars, appVars, client, linkUp, lock, waiters, runq, tpc, wire, submitted>>

\* connect.py:86-89  disconnect up to its await: only a connected client is closed
Disconnect_Enter ==
    /\ dpc = "none"
    /\ IF ConnIsConnected
       THEN /\ dpc' = "closing"
            /\ UNCHANGED client
       ELSE /\ dpc' = "done"
            /\ client' = None
    /\ UNCHANGED <<progVars, appVars, linkUp, lock, waiters, runq, tpc, wire, submitted>>

\* connect.py:89  inside client.disconnect(): the link goes down
Disconnect_LinkClosed ==
    /\ dpc = "closing"
    /\ linkUp' = [linkUp EXCEPT ![1] = FALSE]
    /\ dpc' = "closed"
    /\ UNCHANGED <<progVars, appVars, client, lock, waiters, runq, tpc, wire, submitted>>

\* connect.py:90  self.client = None
Disconnect_Return ==
    /\ dpc = "closed"
    /\ client' = None
    /\ dpc' = "done"
    /\ UNCHANGED <<progVars, appVars, linkUp, lock, waiters, runq, tpc, wire, submitted>>

\* connect.py:86  disconnect is called again after the previous call returned
\* (toolbox.py:602, connect.py:148, connect.py:188 all call it on the same session)
Disconnect_Again ==
    /\ dpc = "done"
    /\ dcalls < MaxCalls
    /\ dcalls' = dcalls + 1
    /\ snap' = <<client, linkUp>>
    /\ dpc' = "none"
    /\ UNCHANGED <<progVars, connVars, lock, waiters, runq, tpc, wire, submitted, lost, auxVars>>

\* the peer drops the link (client.is_connected turns False by itself)
LinkLost ==
    /\ linkUp[1]
    /\ linkUp' = [linkUp EXCEPT ![1] = FALSE]
    /\ UNCHANGED <<progVars, appVars, client, sessVars>>

SessionNext ==
    \/ \E t \in Tasks : SendMotorDirect(t)
    \/ \E t \in Tasks : Write_Enter(t)
    \/ \E t \in Tasks : Write_Acquired(t)
    \/ \E t \in Tasks : \E ok \in BOOLEAN : Write_Return(t, ok)
    \/ Disconnect_Enter
    \/ Disconnect_LinkClosed
    \/ Disconnect_Return
    \/ Disconnect_Again
    \/ LinkLost

SessionSpec == SessionInit /\ [][SessionNext]_vars

\* ====================================================================== RemoteSpec
\* One visit of the remote menu on a session whose link is open and whose loop runs
\* (the state of SessionInit, seen from the connected view's remote submenu): the
\* control thread submits motion frames tick by tick, B starts the remote_stop
\* thread and leaves the menu, and the loop runs the scheduled _write coroutines
\* first come first (connect.py:32-43 under the lock, one write at a time).
RemoteSession ==
    /\ is_connecting = FALSE
    /\ last_error = "None"
    /\ active_mac = 1
    /\ active_name = 1
    /\ client = 1
    /\ linkUp = [a \in Attempts |-> a = 1]
    /\ connLoop = 1
    /\ loopState = [a \in Attempts |-> IF a = 1 THEN "running" ELSE "none"]
    /\ ready = [a \in Attempts |-> <<>>]
    /\ discWait = [a \in Attempts |-> {}]
    /\ pc = [a \in Attempts |-> IF a = 1 THEN "w_linked" ELSE "unused"]
    /\ outcome = [a \in Attempts |-> IF a = 1 THEN "opened" ELSE "none"]
    /\ log = [a \in Attempts |-> IF a = 1 THEN <<"find", "open">> ELSE <<>>]
    /\ pd = 0
    /\ dd = "none"
    /\ ctl = "view"
    /\ current_view = "connected"
    /\ submenu = "remote"
    /\ errShown = 0
    /\ requested = FALSE
    /\ lock = None
    /\ waiters = <<>>
    /\ runq = <<>>
    /\ tpc = [t \in Tasks |-> "unsubmitted"]
    /\ wire = <<>>
    /\ dpc = "none"
    /\ submitted = 0

RemoteInit == RemoteSession /\ AppInit

StopFrames == <<"stop0", "stop1", "stop2">>

\* the stop frames among the frames of q, in order
StopsIn(q) == SelectSeq(q, LAMBDA f : f # "motion")

MotionCount == Len(SelectSeq(rsub, LAMBDA f : f = "motion"))

\* toolbox.py:684-685, remote.py:99-109, connect.py:201-221  a tick in the remote
\* menu whose process() issues a motor command: the frame's _write is scheduled
Remote_Process ==
    /\ submenu = "remote" /\ rs = "none"
    /\ IsConnected
    /\ MotionCount < MaxMotion
    /\ rq' = Append(rq, "motion")
    /\ rsub' = Append(rsub, "motion")
    /\ UNCHANGED <<mgrVars, connVars, loopVars, threadVars, uiVars, sessVars, discVars, lost, extVars, bridgeVars, inputVars, shaperVars, rs, rwire>>

\* toolbox.py:745-747  the tick that finds the session not connected leaves the menu
Remote_Revert ==
    /\ submenu = "remote" /\ rs = "none"
    /\ ~IsConnected
    /\ ResetToMain
    /\ UNCHANGED <<mgrVars, connVars, loopVars, threadVars, ctl, errShown, requested, sessVars, appVars>>

\* toolbox.py:675-676  B: the remote_stop thread is started
Remote_Back_Start ==
    /\ submenu = "remote" /\ rs = "none"
    /\ IsConnected
    /\ rs' = "check"
    /\ UNCHANGED <<mgrVars, connVars, loopVars, threadVars, uiVars, sessVars, discVars, lost, extVars, bridgeVars, inputVars, shaperVars, rq, rsub, rwire>>

\* toolbox.py:677-678  B: self.submenu = None, the menu is left
Remote_Back_Teardown ==
    /\ submenu = "remote" /\ rs # "none"
    /\ submenu' = "none"
    /\ UNCHANGED <<mgrVars, connVars, loopVars, threadVars, ctl, current_view, errShown, requested, sessVars, appVars>>

\* connect.py:287-289  remote_stop: not connected, nothing is sent
RemoteStop_Check ==
    /\ rs = "check"
    /\ rs' = IF IsConnected THEN "stop0" ELSE "done"
    /\ UNCHANGED <<mgrVars, connVars, loopVars, threadVars, uiVars, sessVars, discVars, lost, extVars, bridgeVars, inputVars, shaperVars, rq, rsub, rwire>>

\* connect.py:293-295  remote_stop: the stop frame of the next motor id is scheduled
RemoteStop_Submit ==
    /\ rs \in {"stop0", "stop1", "stop2"}
    /\ rq' = Append(rq, rs)
    /\ rsub' = Append(rsub, rs)
    /\ rs' = CASE rs = "stop0" -> "stop1" [] rs = "stop1" -> "stop2" [] OTHER -> "done"
    /\ UNCHANGED <<mgrVars, connVars, loopVars, threadVars, uiVars, sessVars, discVars, lost, extVars, bridgeVars, inputVars, shaperVars, rwire>>

\* connect.py:32-43  the loop runs the oldest scheduled _write: not connected, the
\* frame is dropped; else it is handed to write_gatt_char, which takes it or raises
Remote_Write ==
    /\ rq # <<>>
    /\ rq' = Tail(rq)
    /\ \E ok \in BOOLEAN :
        rwire' = IF ConnIsConnected /\ ok THEN Append(rwire, Head(rq)) ELSE rwire
    /\ UNCHANGED <<mgrVars, connVars, loopVars, threadVars, uiVars, sessVars, discVars, lost, extVars, bridgeVars, inputVars, shaperVars, rs, rsub>>

RemoteNext ==
    \/ Remote_Process
    \/ Remote_Revert
    \/ Remote_Back_Start
    \/ Remote_Back_Teardown
    \/ RemoteStop_Check
    \/ RemoteStop_Submit
    \/ Remote_Write
    \/ LinkLost

RemoteSpec == RemoteInit /\ [][RemoteNext]_vars

\* ======================================================================= InputSpec
\* The buttons of the remote menu: the input thread records button events
\* (toolbox.py:127-134), the control loop calls process() and then clears the
\* pressed set, once per tick (main.py:96-100). Each mapped button is pressed once,
\* held for some time, and released.
InputInit == RemoteInit

\* input.py:103-109  _add_input_event on SDL_CONTROLLERBUTTONDOWN
Input_ButtonDown(b) ==
    /\ phys[b] = "idle"
    /\ phys' = [phys EXCEPT ![b] = "down"]
    /\ held_time' = [held_time EXCEPT ![b] = IF keys_held[b] THEN @ ELSE 0]
    /\ keys_pressed' = [keys_pressed EXCEPT ![b] = TRUE]
    /\ keys_held' = [keys_held EXCEPT ![b] = TRUE]
    /\ UNCHANGED <<mgrVars, connVars, loopVars, threadVars, uiVars, sessVars, discVars, lost, extVars, bridgeVars, remoteVars, shaperVars, btn_pressed, fired, ipc>>

\* input.py:111-115  _remove_input_event on SDL_CONTROLLERBUTTONUP
Input_ButtonUp(b) ==
    /\ phys[b] = "down"
    /\ phys' = [phys EXCEPT ![b] = "up"]
    /\ keys_held' = [keys_held EXCEPT ![b] = FALSE]
    /\ held_time' = [held_time EXCEPT ![b] = 0]
    /\ UNCHANGED <<mgrVars, connVars, loopVars, threadVars, uiVars, sessVars, discVars, lost, extVars, bridgeVars, remoteVars, shaperVars, keys_pressed, btn_pressed, fired, ipc>>

\* time passes while the button is down
Input_TimePasses(b) ==
    /\ keys_held[b]
    /\ held_time[b] < MaxHold
    /\ held_time' = [held_time EXCEPT ![b] = @ + 1]
    /\ UNCHANGED <<mgrVars, connVars, loopVars, threadVars, uiVars, sessVars, discVars, lost, extVars, bridgeVars, remoteVars, shaperVars, keys_pressed, keys_held, btn_pressed, fired, phys, ipc>>

\* input.py:117-127  the value ui_key(b) returns
UiKey(b) == keys_pressed[b] \/ (keys_held[b] /\ held_time[b] >= InitialDelay)

\* remote.py:36-45  process(): for each mapped button, ui_key consumes the pressed
\* state; a true ui_key invokes the method unless the button's state is set and
\* sets the state; a false one clears the state
Tick_Process ==
    /\ ipc = "process"
    /\ keys_pressed' = [b \in Buttons |-> FALSE]
    /\ fired' = [b \in Buttons |-> IF UiKey(b) /\ ~btn_pressed[b] THEN fired[b] + 1 ELSE fired[b]]
    /\ btn_pressed' = [b \in Buttons |-> UiKey(b)]
    /\ ipc' = "clear"
    /\ UNCHANGED <<mgrVars, connVars, loopVars, threadVars, uiVars, sessVars, discVars, lost, extVars, bridgeVars, remoteVars, shaperVars, keys_held, held_time, phys>>

\* main.py:100, input.py:206-209  clear_ui_states at the end of the tick
Tick_Clear ==
    /\ ipc = "clear"
    /\ keys_pressed' = [b \in Buttons |-> FALSE]
    /\ ipc' = "process"
    /\ UNCHANGED <<mgrVars, connVars, loopVars, threadVars, uiVars, sessVars, discVars, lost, extVars, bridgeVars, remoteVars, shaperVars, keys_held, held_time, btn_pressed, fired, phys>>

InputNext ==
    \/ \E b \in Buttons : Input_ButtonDown(b)
    \/ \E b \in Buttons : Input_ButtonUp(b)
    \/ \E b \in Buttons : Input_TimePasses(b)
    \/ Tick_Process
    \/ Tick_Clear

InputSpec == InputInit /\ [][InputNext]_vars

\* ====================================================================== ShaperSpec
\* RemoteControl's motion shaping, tick by tick, in the remote menu of a connected
\* session. Axis values and speeds are in hundredths; the axis values get_axis_float
\* returns are n/32767, for which no difference equals a threshold exactly.
ShaperInit == RemoteSession /\ BaseInit /\ \E p \in Profiles : ShaperStart(p)

\* the stick and trigger positions a tick may read
ThrottleAxis == {-100, 0, 10, 40, 43, 46, 100}
SteerAxis == {0, 43}
HeadAxis == {0, 40, 43}
DriveAxis == {-100, 0, 10, 40, 42, 43, 100}
RotAxis == HeadAxis \cup {-100, 100}

Abs(x) == IF x < 0 THEN -x ELSE x

\* variant for sensitivity: no deadzone
Dz_None(v) == v

\* remote.py:96-97  _dz
Dz(v) == IF Abs(v) < DEADZONE THEN 0 ELSE v

\* variant for sensitivity: the speed passed on as computed
Clamp_None(v) == v

\* remote.py:102  safe_speed
Clamp(v) == IF v > FullSpeed THEN FullSpeed ELSE IF v < -FullSpeed THEN -FullSpeed ELSE v

\* variant for sensitivity: no command for the return to zero
IssuesCommand_NoZero(speed, last_spd) == Abs(speed - last_spd) > MotorStep

\* remote.py:101  the condition under which _update_motor issues a command
IssuesCommand(speed, last_spd) ==
    Abs(speed - last_spd) > MotorStep \/ (speed = 0 /\ last_spd # 0)

\* remote.py:50-59  the speeds _apply_intents passes to _update_motor
Mix(t, st, h) == [k \in Motors |->
    CASE k = "LEFT" -> Dz(t) + Dz(st)
      [] k = "RIGHT" -> Dz(t) - Dz(st)
      [] OTHER -> Dz(h)]

\* remote.py:17-34, 49-59, 99-109  a tick under an R- profile: the axes are read,
\* mixed, and each motor updated; connect.py:201-221, 32-43: each command issued is
\* written to the link, or dropped where write_gatt_char raises
Shaper_Tick_R(t, st, h) ==
    /\ active_profile \in {"R-Arcade", "R-Racing"}
    /\ active_profile = "R-Arcade" => st = 0
    /\ IsConnected
    /\ axes' = <<t, st, h>>
    /\ LET speed == Mix(t, st, h)
           issued == {k \in Motors : IssuesCommand(speed[k], LAST[k])}
       IN /\ intent' = speed
          /\ emit' = [k \in Motors |-> IF k \in issued THEN <<Clamp(speed[k])>> ELSE <<>>]
          /\ LAST' = [k \in Motors |-> IF k \in issued THEN speed[k] ELSE LAST[k]]
          /\ lastEmitted' = [k \in Motors |-> IF k \in issued THEN speed[k] ELSE lastEmitted[k]]
          /\ \E written \in SUBSET issued :
                pending' = [k \in Motors |-> IF k \in issued THEN k \notin written ELSE pending[k]]
    /\ UNCHANGED <<active_profile, LAST_BB_DRIVE, LAST_BB_HEAD, bbIntent, bbcmds, bbLast>>
    /\ UNCHANGED <<mgrVars, connVars, loopVars, threadVars, uiVars, sessVars, discVars, lost, extVars, bridgeVars, remoteVars, inputVars>>

\* variant for sensitivity: the drive speed without BB_DRIVE_LIMIT
DriveSpeed_Unlimited(d) == (Abs(d) * 255) \div 100

\* remote.py:79  the speed byte of bb_drive: int(abs(drive) * 255 * BB_DRIVE_LIMIT)
DriveSpeed(d) == (Abs(d) * 255 * 8) \div 1000

\* remote.py:88  the speed byte of bb_rotate: int(abs(head) * 255 * BB_TURN_LIMIT)
RotSpeed(h) == (Abs(h) * 255 * 35) \div 10000

\* remote.py:76-84  the drive half of _handle_bb_movement: <<calls, LAST_BB_DRIVE'>>
BBDrive(d, last_d) ==
    IF Abs(d) > BBMoving
    THEN IF Abs(d - last_d) > BBStep
         THEN <<  <<[cmd |-> "bb_drive", dir |-> IF d > 0 THEN 0 ELSE 128, speed |-> DriveSpeed(d)]>>, d>>
         ELSE <<  <<>>, last_d>>
    ELSE IF last_d # 0
         THEN <<  <<[cmd |-> "bb_drive", dir |-> 0, speed |-> 0]>>, 0>>
         ELSE <<  <<>>, last_d>>

\* remote.py:86-94  the head half: <<calls, LAST_BB_HEAD'>>
BBHead(h, last_h) ==
    IF Abs(h) > BBMoving
    THEN IF Abs(h - last_h) > BBStep
         THEN <<  <<[cmd |-> "bb_rotate", dir |-> IF h > 0 THEN 0 ELSE 255, speed |-> RotSpeed(h)]>>, h>>
         ELSE <<  <<>>, last_h>>
    ELSE IF last_h # 0
         THEN <<  <<[cmd |-> "bb_rotate", dir |-> 0, speed |-> 0]>>, 0>>
         ELSE <<  <<>>, last_h>>

\* the value for which a command of kind c was last called, after the calls of q
LastCalled(q, c, v, before) ==
    IF \E i \in 1..Len(q) : q[i].cmd = c THEN v ELSE before

\* remote.py:17-34, 61-94  a tick under a BB- profile
Shaper_Tick_BB(d0, h0) ==
    /\ active_profile = "BB-Arcade"
    /\ IsConnected
    /\ axes' = <<d0, 0, h0>>
    /\ LET d == Dz(d0)
           h == Dz(h0)
       IN /\ bbIntent' = <<d, h>>
          /\ IF d = 0 /\ h = 0
             THEN IF LAST_BB_DRIVE # 0 \/ LAST_BB_HEAD # 0
                  THEN /\ bbcmds' = <<[cmd |-> "bb_drive", dir |-> 0, speed |-> 0]>>
                       /\ LAST_BB_DRIVE' = 0
                       /\ LAST_BB_HEAD' = 0
                  ELSE /\ bbcmds' = <<>>
                       /\ UNCHANGED <<LAST_BB_DRIVE, LAST_BB_HEAD>>
             ELSE /\ bbcmds' = BBDrive(d, LAST_BB_DRIVE)[1] \o BBHead(h, LAST_BB_HEAD)[1]
                  /\ LAST_BB_DRIVE' = BBDrive(d, LAST_BB_DRIVE)[2]
                  /\ LAST_BB_HEAD' = BBHead(h, LAST_BB_HEAD)[2]
          /\ bbLast' = <<LastCalled(bbcmds', "bb_drive", d, bbLast[1]),
                         LastCalled(bbcmds', "bb_rotate", h, bbLast[2])>>
    /\ UNCHANGED <<active_profile, LAST, intent, emit, lastEmitted, pending>>
    /\ UNCHANGED <<mgrVars, connVars, loopVars, threadVars, uiVars, sessVars, discVars, lost, extVars, bridgeVars, remoteVars, inputVars>>

ShaperNext ==
    \/ \E t \in ThrottleAxis, st \in SteerAxis, h \in HeadAxis : Shaper_Tick_R(t, st, h)
    \/ \E d \in DriveAxis, h \in RotAxis : Shaper_Tick_BB(d, h)

ShaperSpec == ShaperInit /\ [][ShaperNext]_vars

\* ======================================================================= CodecSpec
\* The packets ConnectionManager builds for the R-series motors, in a connected
\* session. Speeds are in hundredths; bytes are written in decimal
\* (0x27 = 39, 0x44 = 68, 0x2C = 44, 0x2B = 43, 0x42 = 66, 0x0F = 15, 0x48 = 72).
CodecInit == RemoteSession /\ AppInit

\* the speeds _update_motor passes on: max(-1.0, min(1.0, speed))  (remote.py:102)
MotorSpeeds == (-FullSpeed)..FullSpeed

\* variant for sensitivity: the speed byte mapped onto [0x00, 0xFF]
send_motor_direct_FullRange(motor_id, speed) ==
    IF Abs(speed) < StopBelow
    THEN <<39, 0, 5, 68, motor_id, 0, 0, 0>>
    ELSE <<39, 0, 5, 68,
           (IF speed > 0 THEN 0 ELSE 128) + motor_id,
           (Abs(speed) * 255) \div 100,
           1, 44>>

\* connect.py:201-221  the packet of _send_motor_direct(motor_id, speed)
send_motor_direct(motor_id, speed) ==
    IF Abs(speed) < StopBelow
    THEN <<39, 0, 5, 68, motor_id, 0, 0, 0>>
    ELSE <<39, 0, 5, 68,
           (IF speed > 0 THEN 0 ELSE 128) + motor_id,
           96 + (Abs(speed) * (255 - 96)) \div 100,
           1, 44>>

\* variant for sensitivity: remote_head without its branch for small values
head_packet_NoStop(value) ==
    <<43, 66, 15, 72, 68, 2,
      IF value > 0 THEN 0 ELSE 255,
      (Abs(value) * 255) \div 100,
      0, 100, 0, 1>>

\* connect.py:237-258  the packet of remote_head(value)
head_packet(value) ==
    IF Abs(value) < StopBelow
    THEN <<39, 0, 5, 68, 2, 0, 0, 0>>
    ELSE <<43, 66, 15, 72, 68, 2,
           IF value > 0 THEN 0 ELSE 255,
           (Abs(value) * 255) \div 100,
           0, 100, 0, 1>>

\* connect.py:195-196
remote_throttle_left(speed) ==
    /\ IsConnected
    /\ mcall' = <<[motor |-> 0, speed |-> speed]>>
    /\ mframe' = send_motor_direct(0, speed)
    /\ UNCHANGED <<mgrVars, connVars, loopVars, threadVars, uiVars, sessVars, discVars, lost, bridgeVars, remoteVars, inputVars, shaperVars, audioVars, beaconVars, payloadVars, readerVars, guardVars, visitVars, profileVars>>

\* connect.py:198-199
remote_throttle_right(speed) ==
    /\ IsConnected
    /\ mcall' = <<[motor |-> 1, speed |-> speed]>>
    /\ mframe' = send_motor_direct(1, speed)
    /\ UNCHANGED <<mgrVars, connVars, loopVars, threadVars, uiVars, sessVars, discVars, lost, bridgeVars, remoteVars, inputVars, shaperVars, audioVars, beaconVars, payloadVars, readerVars, guardVars, visitVars, profileVars>>

\* connect.py:237-258
remote_head(value) ==
    /\ IsConnected
    /\ mcall' = <<[motor |-> 2, speed |-> value]>>
    /\ mframe' = head_packet(value)
    /\ UNCHANGED <<mgrVars, connVars, loopVars, threadVars, uiVars, sessVars, discVars, lost, bridgeVars, remoteVars, inputVars, shaperVars, audioVars, beaconVars, payloadVars, readerVars, guardVars, visitVars, profileVars>>

CodecNext ==
    \/ \E v \in MotorSpeeds : remote_throttle_left(v)
    \/ \E v \in MotorSpeeds : remote_throttle_right(v)
    \/ \E v \in MotorSpeeds : remote_head(v)

CodecSpec == CodecInit /\ [][CodecNext]_vars

\* ======================================================================= AudioSpec
\* One call of DroidConnection.send_audio at a time, on the loop of a session whose
\* link is up at first and may drop. Time is counted in units of 50 ms from the
\* return of the group write. _write (connect.py:32-43) is one step: False without a
\* link, otherwise write_gatt_char returns or raises.
AudioInit == RemoteSession /\ AppInit

AudioGroups == 0..2
AudioClips == 1..3

\* connect.py:73-75  AUDIO_BASE + [0x1f, group]
GroupFrame(group) == <<39, 66, 15, 68, 68, 0, 31, group>>

\* connect.py:73, 78  AUDIO_BASE + [0x18, clip]
ClipFrame(clip) == <<39, 66, 15, 68, 68, 0, 24, clip>>

AudioRest == <<mgrVars, connVars, loopVars, threadVars, uiVars, sessVars, discVars, lost, bridgeVars, remoteVars, inputVars, shaperVars, codecVars, beaconVars, payloadVars, readerVars, guardVars, visitVars, profileVars>>

\* connect.py:71-73  send_audio(group, clip) is entered
Audio_Call(group, clip) ==
    /\ apc \in {"idle", "done"}
    /\ apc' = "group"
    /\ aargs' = <<group, clip>>
    /\ awrites' = <<>>
    /\ since' = 0
    /\ aret' = "none"
    /\ UNCHANGED AudioRest

\* variant for sensitivity: the result of the group write is not looked at
Audio_WriteGroup_Unchecked(ok) ==
    /\ apc = "group"
    /\ IF ~ConnIsConnected
       THEN /\ apc' = "sleep"
            /\ UNCHANGED <<awrites, aret>>
       ELSE /\ awrites' = Append(awrites, [frame |-> GroupFrame(aargs[1]), ok |-> ok, at |-> 0])
            /\ apc' = "sleep"
            /\ aret' = aret
    /\ since' = 0
    /\ UNCHANGED aargs
    /\ UNCHANGED AudioRest

\* connect.py:75, 79  the group write; send_audio returns False where it fails
Audio_WriteGroup(ok) ==
    /\ apc = "group"
    /\ IF ~ConnIsConnected
       THEN /\ apc' = "done"
            /\ aret' = "False"
            /\ UNCHANGED awrites
       ELSE /\ awrites' = Append(awrites, [frame |-> GroupFrame(aargs[1]), ok |-> ok, at |-> 0])
            /\ apc' = IF ok THEN "sleep" ELSE "done"
            /\ aret' = IF ok THEN aret ELSE "False"
    /\ since' = 0
    /\ UNCHANGED aargs
    /\ UNCHANGED AudioRest

\* time passes while the call sleeps or waits to write
Audio_Tick ==
    /\ apc \in {"sleep", "clip"}
    /\ since < MaxSince
    /\ since' = since + 1
    /\ UNCHANGED <<apc, aargs, awrites, aret>>
    /\ UNCHANGED AudioRest

\* connect.py:76  asyncio.sleep(0.1) returns, not before the delay has passed
Audio_Wake ==
    /\ apc = "sleep"
    /\ since >= SettleDelay
    /\ apc' = "clip"
    /\ UNCHANGED <<aargs, awrites, since, aret>>
    /\ UNCHANGED AudioRest

\* connect.py:78  the clip write, whose result send_audio returns
Audio_WriteClip(ok) ==
    /\ apc = "clip"
    /\ IF ~ConnIsConnected
       THEN /\ aret' = "False"
            /\ UNCHANGED awrites
       ELSE /\ awrites' = Append(awrites, [frame |-> ClipFrame(aargs[2]), ok |-> ok, at |-> since])
            /\ aret' = IF ok THEN "True" ELSE "False"
    /\ apc' = "done"
    /\ UNCHANGED <<aargs, since>>
    /\ UNCHANGED AudioRest

AudioNext ==
    \/ \E group \in AudioGroups, clip \in AudioClips : Audio_Call(group, clip)
    \/ \E ok \in BOOLEAN : Audio_WriteGroup(ok)
    \/ Audio_Tick
    \/ Audio_Wake
    \/ \E ok \in BOOLEAN : Audio_WriteClip(ok)
    \/ LinkLost

AudioSpec == AudioInit /\ [][AudioNext]_vars

\* ====================================================================== BeaconSpec
\* The beacon of the toolbox: the UI thread (BeaconManager.stop and _run), the threads
\* that run start_loop, the refresh loop threads, the scan thread's power_on and the
\* writer thread of BluetoothCtl. Joins and sleeps end at any time.
BeaconInit == Init

BeaconRest == <<mgrVars, connVars, loopVars, threadVars, uiVars, sessVars, discVars, lost, bridgeVars, remoteVars, inputVars, shaperVars, codecVars, audioVars, payloadVars, readerVars, guardVars, visitVars, profileVars>>

\* beacon.py:34-43, 20-22  the manufacturer data of a location beacon
MfgData(target) ==
    IF target = "Ronto Roasters" THEN "0x0A 0x04 0x01 0x02 0xA6 0x01"
    ELSE "0x0A 0x04 0x02 0x02 0xA6 0x01"

\* bluetoothctl.py:184  payload = f"{mfg_id}:{mfg_data}"
Payload(target) == "0x0183:" \o MfgData(target)

\* beacon.py:28  debug_payload = f"{mfg_id} {mfg_data}"
DebugPayload(target) == "0x0183 " \o MfgData(target)

\* bluetoothctl.py:188-193  the lines of broadcast_mfg
BroadcastLines(target) ==
    <<"advertise off", "menu advertise", "clear",
      "manufacturer 0x0183 " \o MfgData(target), "back", "advertise on">>

\* variant for sensitivity: no payload is taken for the one already advertised
SamePayload_Never(payload, current) == FALSE

\* bluetoothctl.py:185  payload == self.current_mfg_payload
SamePayload(payload, current) == payload = current

\* what _writer has written to bluetoothctl's stdin
Stdin == SubSeq(cmd_queue, 1, nwritten)

\* toolbox.py:466-468 (X), 480-482 with 122-124, 484-493 and beacon.py:122-124 (A on a
\* beacon: _reset_bluetooth_adapter, then _run), toolbox.py:139-145 (the scan view):
\* each handler begins with BeaconManager.stop(), whose first step is stop_event.set()
\* (beacon.py:133-135, 60-62)
UI_Begin(op, target) ==

    /\ upc = "idle"
    /\ nops < MaxOps
    /\ op = "A" => nstart < MaxStarts
    /\ op = "scan" => spc = "none"
    /\ nops' = nops + 1
    /\ uop' = op
    /\ utarget' = IF op = "A" THEN target ELSE utarget
    /\ ustops' = IF op = "A" THEN 2 ELSE 1
    /\ stop_event' = TRUE
    /\ upc' = "lock"
    /\ stopped' = IF op = "A" THEN FALSE ELSE stopped
    /\ UNCHANGED <<beacon_lock, current_mfg_payload, current_active, debug_payload,
                   cmd_queue, nwritten, nstart, lpc, kpc, ktarget, beacon_thread, bstep,
                   spc, bcalls, prevPayload, lastcall, runseqs, stopmark>>
    /\ UNCHANGED BeaconRest

\* beacon.py:63-69 with bluetoothctl.py:197-199  stop() inside its lock
UI_StopLocked ==

    /\ upc = "lock"
    /\ beacon_lock = 0
    /\ cmd_queue' = Append(cmd_queue, [cmd |-> "advertise off", by |-> "stop", call |-> 0])
    /\ current_mfg_payload' = "None"
    /\ current_active' = "None"
    /\ debug_payload' = ""
    /\ prevPayload' = ""
    /\ lastcall' = <<>>
    /\ runseqs' = 0
    /\ upc' = "join"
    /\ UNCHANGED <<stop_event, beacon_lock, nwritten, uop, utarget, ustops, nops,
                   nstart, lpc, kpc, ktarget, beacon_thread, bstep, spc, bcalls,
                   stopped, stopmark>>
    /\ UNCHANGED BeaconRest

\* beacon.py:136-137, then the second stop() of the A handler (beacon.py:124)
UI_StopAgain ==

    /\ upc = "join"
    /\ ustops > 1
    /\ ustops' = ustops - 1
    /\ stop_event' = TRUE
    /\ upc' = "lock"
    /\ UNCHANGED <<beacon_lock, current_mfg_payload, current_active, debug_payload,
                   cmd_queue, nwritten, uop, utarget, nops, nstart, lpc, kpc, ktarget,
                   beacon_thread, bstep, spc, bcalls, prevPayload, lastcall, runseqs,
                   stopped, stopmark>>
    /\ UNCHANGED BeaconRest

\* beacon.py:136-137  stop() returns to the X handler: the join gives up after 0.1 s
UI_StopReturn ==

    /\ upc = "join"
    /\ ustops = 1
    /\ uop = "X"
    /\ ustops' = 0
    /\ upc' = "idle"
    /\ stopped' = TRUE
    /\ stopmark' = Len(cmd_queue)
    /\ UNCHANGED <<stop_event, beacon_lock, current_mfg_payload, current_active,
                   debug_payload, cmd_queue, nwritten, uop, utarget, nops, nstart, lpc,
                   kpc, ktarget, beacon_thread, bstep, spc, bcalls, prevPayload,
                   lastcall, runseqs>>
    /\ UNCHANGED BeaconRest

\* toolbox.py:145 with scan.py:72-77  the scan view starts the scan thread
UI_StartScan ==

    /\ upc = "join"
    /\ ustops = 1
    /\ uop = "scan"
    /\ ustops' = 0
    /\ upc' = "idle"
    /\ spc' = "power"
    /\ stopped' = TRUE
    /\ stopmark' = Len(cmd_queue)
    /\ UNCHANGED <<stop_event, beacon_lock, current_mfg_payload, current_active,
                   debug_payload, cmd_queue, nwritten, uop, utarget, nops, nstart, lpc,
                   kpc, ktarget, beacon_thread, bstep, bcalls, prevPayload, lastcall,
                   runseqs>>
    /\ UNCHANGED BeaconRest

\* beacon.py:125-131  _run starts the thread that runs start_loop
UI_Launch ==

    /\ upc = "join"
    /\ ustops = 1
    /\ uop = "A"
    /\ ustops' = 0
    /\ upc' = "idle"
    /\ nstart' = nstart + 1
    /\ lpc' = [lpc EXCEPT ![nstart + 1] = "check"]
    /\ ktarget' = [ktarget EXCEPT ![nstart + 1] = utarget]
    /\ UNCHANGED <<stop_event, beacon_lock, current_mfg_payload, current_active,
                   debug_payload, cmd_queue, nwritten, uop, utarget, nops, kpc,
                   beacon_thread, bstep, spc, bcalls, prevPayload, lastcall, runseqs,
                   stopped, stopmark>>
    /\ UNCHANGED BeaconRest

\* beacon.py:73-75  start_loop: an earlier loop thread that is alive is told to stop
StartLoop_Check(i) ==

    /\ lpc[i] = "check"
    /\ IF beacon_thread # 0 /\ kpc[beacon_thread] # "dead"
       THEN /\ stop_event' = TRUE
            /\ lpc' = [lpc EXCEPT ![i] = "join"]
       ELSE /\ lpc' = [lpc EXCEPT ![i] = "clear"]
            /\ UNCHANGED stop_event
    /\ UNCHANGED <<beacon_lock, current_mfg_payload, current_active, debug_payload,
                   cmd_queue, nwritten, upc, uop, utarget, ustops, nops, nstart, kpc,
                   ktarget, beacon_thread, bstep, spc, bcalls, prevPayload, lastcall,
                   runseqs, stopped, stopmark>>
    /\ UNCHANGED BeaconRest

\* beacon.py:75  join(timeout=0.2) returns: the thread ended or the time is up
StartLoop_Join(i) ==

    /\ lpc[i] = "join"
    /\ lpc' = [lpc EXCEPT ![i] = "clear"]
    /\ UNCHANGED <<stop_event, beacon_lock, current_mfg_payload, current_active,
                   debug_payload, cmd_queue, nwritten, upc, uop, utarget, ustops, nops,
                   nstart, kpc, ktarget, beacon_thread, bstep, spc, bcalls, prevPayload,
                   lastcall, runseqs, stopped, stopmark>>
    /\ UNCHANGED BeaconRest

\* beacon.py:77  stop_event.clear()
StartLoop_Clear(i) ==

    /\ lpc[i] = "clear"
    /\ stop_event' = FALSE
    /\ lpc' = [lpc EXCEPT ![i] = "start"]
    /\ UNCHANGED <<beacon_lock, current_mfg_payload, current_active, debug_payload,
                   cmd_queue, nwritten, upc, uop, utarget, ustops, nops, nstart, kpc,
                   ktarget, beacon_thread, bstep, spc, bcalls, prevPayload, lastcall,
                   runseqs, stopped, stopmark>>
    /\ UNCHANGED BeaconRest

\* beacon.py:102-103  the loop thread is created and started
StartLoop_Start(i) ==

    /\ lpc[i] = "start"
    /\ beacon_thread' = i
    /\ kpc' = [kpc EXCEPT ![i] = "check"]
    /\ lpc' = [lpc EXCEPT ![i] = "done"]
    /\ UNCHANGED <<stop_event, beacon_lock, current_mfg_payload, current_active,
                   debug_payload, cmd_queue, nwritten, upc, uop, utarget, ustops, nops,
                   nstart, ktarget, bstep, spc, bcalls, prevPayload, lastcall, runseqs,
                   stopped, stopmark>>
    /\ UNCHANGED BeaconRest

\* beacon.py:80  while not self.stop_event.is_set()
Loop_Check(i) ==

    /\ kpc[i] = "check"
    /\ kpc' = [kpc EXCEPT ![i] = IF stop_event THEN "dead" ELSE "lock"]
    /\ UNCHANGED <<stop_event, beacon_lock, current_mfg_payload, current_active,
                   debug_payload, cmd_queue, nwritten, upc, uop, utarget, ustops, nops,
                   nstart, lpc, ktarget, beacon_thread, bstep, spc, bcalls, prevPayload,
                   lastcall, runseqs, stopped, stopmark>>
    /\ UNCHANGED BeaconRest

\* beacon.py:84-94, 18-30 with bluetoothctl.py:183-186  the loop calls activate_*,
\* _send_payload takes the lock and broadcast_mfg compares the payload: a missing
\* current_mfg_payload raises AttributeError, which _send_payload swallows; an equal
\* payload returns at once; otherwise the six lines follow
Loop_Broadcast(i) ==

    /\ kpc[i] = "lock"
    /\ beacon_lock = 0
    /\ LET p == Payload(ktarget[i])
       IN IF current_mfg_payload = "unset"
          THEN /\ kpc' = [kpc EXCEPT ![i] = "sleep"]
               /\ UNCHANGED <<beacon_lock, bstep, bcalls, current_active, debug_payload, prevPayload, lastcall, runseqs>>
          ELSE IF SamePayload(p, current_mfg_payload)
          THEN /\ current_active' = ktarget[i]
               /\ debug_payload' = DebugPayload(ktarget[i])
               /\ lastcall' = <<[payload |-> p, lines |-> 0, repeat |-> (p = prevPayload)]>>
               /\ runseqs' = IF p = prevPayload THEN runseqs ELSE 0
               /\ prevPayload' = p
               /\ kpc' = [kpc EXCEPT ![i] = "sleep"]
               /\ UNCHANGED <<beacon_lock, bstep, bcalls>>
          ELSE /\ Len(cmd_queue) + 6 <= MaxLines
               /\ beacon_lock' = i
               /\ bstep' = 1
               /\ bcalls' = bcalls + 1
               /\ kpc' = [kpc EXCEPT ![i] = "send"]
               /\ UNCHANGED <<current_active, debug_payload, prevPayload, lastcall, runseqs>>
    /\ UNCHANGED <<stop_event, current_mfg_payload, cmd_queue, nwritten, upc, uop,
                   utarget, ustops, nops, nstart, lpc, ktarget, beacon_thread, spc,
                   stopped, stopmark>>
    /\ UNCHANGED BeaconRest

\* bluetoothctl.py:188-194, 124-125 and beacon.py:27-28  one _send of broadcast_mfg;
\* after the sixth the payload is recorded, the exposed state set and the lock released
Loop_Send(i) ==

    /\ kpc[i] = "send"
    /\ cmd_queue' = Append(cmd_queue, [cmd |-> BroadcastLines(ktarget[i])[bstep], by |-> "bcast", call |-> bcalls])
    /\ IF bstep < 6
       THEN /\ bstep' = bstep + 1
            /\ UNCHANGED <<kpc, beacon_lock, current_mfg_payload, current_active, debug_payload, prevPayload, lastcall, runseqs>>
       ELSE /\ bstep' = 0
            /\ current_mfg_payload' = Payload(ktarget[i])
            /\ current_active' = ktarget[i]
            /\ debug_payload' = DebugPayload(ktarget[i])
            /\ lastcall' = <<[payload |-> Payload(ktarget[i]), lines |-> 6, repeat |-> (Payload(ktarget[i]) = prevPayload)]>>
            /\ runseqs' = (IF Payload(ktarget[i]) = prevPayload THEN runseqs ELSE 0) + 1
            /\ prevPayload' = Payload(ktarget[i])
            /\ beacon_lock' = 0
            /\ kpc' = [kpc EXCEPT ![i] = "sleep"]
    /\ UNCHANGED <<stop_event, nwritten, upc, uop, utarget, ustops, nops, nstart, lpc,
                   ktarget, beacon_thread, spc, bcalls, stopped, stopmark>>
    /\ UNCHANGED BeaconRest

\* beacon.py:96-98  the wait ends: the time is up or stop_event is set
Loop_Wake(i) ==

    /\ kpc[i] = "sleep"
    /\ kpc' = [kpc EXCEPT ![i] = "check"]
    /\ UNCHANGED <<stop_event, beacon_lock, current_mfg_payload, current_active,
                   debug_payload, cmd_queue, nwritten, upc, uop, utarget, ustops, nops,
                   nstart, lpc, ktarget, beacon_thread, bstep, spc, bcalls, prevPayload,
                   lastcall, runseqs, stopped, stopmark>>
    /\ UNCHANGED BeaconRest

\* scan.py:83-85 with bluetoothctl.py:130-134  the scan thread: power_on sends "power on"
Scan_PowerOn ==

    /\ spc = "power"
    /\ cmd_queue' = Append(cmd_queue, [cmd |-> "power on", by |-> "scan", call |-> 0])
    /\ spc' = "info"
    /\ UNCHANGED <<stop_event, beacon_lock, current_mfg_payload, current_active,
                   debug_payload, nwritten, upc, uop, utarget, ustops, nops, nstart,
                   lpc, kpc, ktarget, beacon_thread, bstep, bcalls, prevPayload,
                   lastcall, runseqs, stopped, stopmark>>
    /\ UNCHANGED BeaconRest

\* bluetoothctl.py:135-136, 149-151  get_info("") sends "info "
Scan_Info ==

    /\ spc = "info"
    /\ cmd_queue' = Append(cmd_queue, [cmd |-> "info ", by |-> "scan", call |-> 0])
    /\ spc' = "retry"
    /\ UNCHANGED <<stop_event, beacon_lock, current_mfg_payload, current_active,
                   debug_payload, nwritten, upc, uop, utarget, ustops, nops, nstart,
                   lpc, kpc, ktarget, beacon_thread, bstep, bcalls, prevPayload,
                   lastcall, runseqs, stopped, stopmark>>
    /\ UNCHANGED BeaconRest

\* bluetoothctl.py:137-139  "power on" again unless the adapter reports Powered: yes
Scan_Retry(powered) ==

    /\ spc = "retry"
    /\ cmd_queue' = IF powered THEN cmd_queue
                    ELSE Append(cmd_queue, [cmd |-> "power on", by |-> "scan", call |-> 0])
    /\ spc' = "done"
    /\ UNCHANGED <<stop_event, beacon_lock, current_mfg_payload, current_active,
                   debug_payload, nwritten, upc, uop, utarget, ustops, nops, nstart,
                   lpc, kpc, ktarget, beacon_thread, bstep, bcalls, prevPayload,
                   lastcall, runseqs, stopped, stopmark>>
    /\ UNCHANGED BeaconRest

\* bluetoothctl.py:87-96  _writer takes the next line off the queue and writes it
Writer_Write ==

    /\ nwritten < Len(cmd_queue)
    /\ nwritten' = nwritten + 1
    /\ UNCHANGED <<stop_event, beacon_lock, current_mfg_payload, current_active,
                   debug_payload, cmd_queue, upc, uop, utarget, ustops, nops, nstart,
                   lpc, kpc, ktarget, beacon_thread, bstep, spc, bcalls, prevPayload,
                   lastcall, runseqs, stopped, stopmark>>
    /\ UNCHANGED BeaconRest

BeaconNext ==
    \/ \E target \in Targets : UI_Begin("A", target)
    \/ \E op \in {"X", "scan"} : UI_Begin(op, utarget)
    \/ UI_StopLocked
    \/ UI_StopAgain
    \/ UI_StopReturn
    \/ UI_StartScan
    \/ UI_Launch
    \/ \E i \in Starts : StartLoop_Check(i)
    \/ \E i \in Starts : StartLoop_Join(i)
    \/ \E i \in Starts : StartLoop_Clear(i)
    \/ \E i \in Starts : StartLoop_Start(i)
    \/ \E i \in Starts : Loop_Check(i)
    \/ \E i \in Starts : Loop_Broadcast(i)
    \/ \E i \in Starts : Loop_Send(i)
    \/ \E i \in Starts : Loop_Wake(i)
    \/ Scan_PowerOn
    \/ Scan_Info
    \/ \E powered \in BOOLEAN : Scan_Retry(powered)
    \/ Writer_Write

BeaconSpec == BeaconInit /\ [][BeaconNext]_vars

\* ====================================================================== PayloadSpec
\* The beacon tables and what is assembled from them, one call at a time: in the
\* toolbox (BeaconManager and the loop of start_loop, src/app/beacon.py) and in the
\* console menu (DroidUI._beacon_submenu with src/beacon.py). Times in tenths of a
\* second. The interleavings of the toolbox's threads are BeaconSpec's.
PayloadInit == Init

PayloadRest == <<mgrVars, connVars, loopVars, threadVars, uiVars, sessVars, discVars, lost, bridgeVars, remoteVars, inputVars, shaperVars, codecVars, audioVars, beaconVars, readerVars, guardVars, visitVars, profileVars>>

\* dicts.py:39-49  LOCATIONS: key |-> <<zone id, name, cooldown byte>>
LOCATIONS ==
    << <<1, "Ronto Roasters", 2>>, <<2, "Oil Baths", 2>>, <<3, "Resistance Base", 2>>,
       <<4, "Unknown", 2>>, <<5, "Droid Depot", 2>>, <<6, "Den of Antiquities", 2>>,
       <<7, "First Order Base", 2>>, <<5, "Oga's Droid Detector", 255>>,
       <<7, "First Order Alert", 255>> >>

\* dicts.py:55-59  FACTIONS
FACTIONS == [f \in {"Scoundrel", "Resistance", "First Order"} |->
    CASE f = "Scoundrel" -> 1 [] f = "Resistance" -> 5 [] OTHER -> 9]

\* dicts.py:61-87  DROIDS: faction |-> key |-> <<id, name>>
DROIDS == [f \in DOMAIN FACTIONS |->
    CASE f = "Scoundrel" ->
           << <<1, "R-Series (Default)">>, <<2, "BB-Series (Default)">>, <<4, "Gray (U9-C4)">>,
              <<7, "Purple (M5-BZ)">>, <<9, "Cyan/Red (CB-23)">>, <<13, "Blue (R5-D4)">>,
              <<15, "A-LT Series (Default)">>, <<16, "White (Drum Kit)">> >>
      [] f = "Resistance" ->
           << <<3, "Blue (R5-D8)">>, <<6, "Orange (R4-P17)">>, <<10, "Yellow (CH-33P)">>,
              <<11, "C-Series (Default)">>, <<12, "D-Unit (Default)">>, <<14, "BD-Unit (Default)">>,
              <<1, "Green (R2-H15)">>, <<1, "Orange (SPOOK-E)">> >>
      [] OTHER -> << <<5, "Red (0-0-0)">>, <<8, "Black (BB-9E)">> >>]

\* the entries a beacon can be started for
Entries ==
    {<<"location", "", k>> : k \in 1..Len(LOCATIONS)} \cup
    UNION {{<<"droid", f, k>> : k \in 1..Len(DROIDS[f])} : f \in DOMAIN FACTIONS}

\* f"{b:02X}" for a byte, as two hexadecimal digits
Hex2(b) == <<b \div 16, b % 16>>

\* beacon.py:34-42, 20  the payload string without "0x" and blanks, as digits:
\* MFG_ID 0183, then two digits for each field
RECURSIVE RawDigits(_)
RawDigits(fields) ==
    IF fields = <<>> THEN <<>> ELSE Hex2(Head(fields)) \o RawDigits(Tail(fields))

\* beacon.py:20-22  mfg_data: the digits after the first four, two by two
MfgBytes(fields) ==
    LET raw == <<0, 1, 8, 3>> \o RawDigits(fields)
    IN [i \in 1..((Len(raw) - 4) \div 2) |-> raw[2 * i + 3] * 16 + raw[2 * i + 4]]

\* beacon.py:32-43  activate_location(loc_id, name, cooldown_byte)
LocationPayload(loc_id, cooldown_byte) == MfgBytes(<<10, 4, loc_id, cooldown_byte, 166, 1>>)

\* beacon.py:45-58  activate_droid(p_id, p_name, faction_name)
DroidPayload(p_id, faction_name) == MfgBytes(<<3, 4, 68, 129, 128 + FACTIONS[faction_name] * 2, p_id>>)

\* variant for sensitivity: every beacon refreshed at the droid cadence
LoopWait_Fixed(e) == 20

\* app/beacon.py:82-94  wait_time of an iteration of the loop
LoopWait(e) ==
    IF e[1] = "location"
    THEN IF LOCATIONS[e[3]][3] * 50 > 10 THEN LOCATIONS[e[3]][3] * 50 ELSE 10
    ELSE 20

\* app/beacon.py:84-94  what the loop of the toolbox broadcasts for an entry: the
\* location call is activate_location(target_id, data[1], data[2])
LoopPayload(e) ==
    IF e[1] = "location" THEN LocationPayload(e[3], LOCATIONS[e[3]][3])
    ELSE DroidPayload(DROIDS[e[2]][e[3]][1], e[2])

\* app/beacon.py:87, 93  the name the loop passes on
LoopName(e) == IF e[1] = "location" THEN LOCATIONS[e[3]][2] ELSE DROIDS[e[2]][e[3]][2]

\* ui.py:167-172  what the console menu broadcasts:
\* activate_location(selected[0], selected[1], selected[2])
MenuPayload(e) ==
    IF e[1] = "location" THEN LocationPayload(LOCATIONS[e[3]][1], LOCATIONS[e[3]][3])
    ELSE DroidPayload(DROIDS[e[2]][e[3]][1], e[2])

\* src/beacon.py:29, 43  the label of the console menu
MenuName(e) ==
    IF e[1] = "location" THEN LOCATIONS[e[3]][2]
    ELSE e[2] \o ": " \o DROIDS[e[2]][e[3]][2]

\* toolbox.py:480-493, app/beacon.py:122-131, 60-69, 79-94 with bluetoothctl.py:183-199
\* A on a beacon: stop(), then the first iteration of the new loop
Toolbox_Start(e) ==
    /\ prog \in {"none", "toolbox"}
    /\ prog' = "toolbox"
    /\ entry' = e
    /\ looping' = TRUE
    /\ mfg_attr' = "set"
    /\ mfg_payload' = LoopPayload(e)
    /\ plines' = 6
    /\ active' = LoopName(e)
    /\ debug' = LoopPayload(e)
    /\ wait_time' = LoopWait(e)
    /\ history' = "later"
    /\ UNCHANGED perr
    /\ UNCHANGED PayloadRest

\* app/beacon.py:80-98, 18-30 with bluetoothctl.py:183-186  a later iteration
Toolbox_Refresh ==
    /\ prog = "toolbox"
    /\ looping
    /\ IF mfg_payload = LoopPayload(entry)
       THEN plines' = 0
       ELSE plines' = 6
    /\ mfg_payload' = LoopPayload(entry)
    /\ active' = LoopName(entry)
    /\ debug' = LoopPayload(entry)
    /\ wait_time' = LoopWait(entry)
    /\ UNCHANGED <<prog, entry, looping, mfg_attr, perr, history>>
    /\ UNCHANGED PayloadRest

\* toolbox.py:466-468, app/beacon.py:133-137, 60-69, bluetoothctl.py:197-199  X
Toolbox_Stop ==
    /\ prog \in {"none", "toolbox"}
    /\ prog' = "toolbox"
    /\ looping' = FALSE
    /\ mfg_attr' = "None"
    /\ mfg_payload' = <<>>
    /\ active' = "None"
    /\ debug' = <<>>
    /\ history' = "later"
    /\ UNCHANGED <<entry, plines, wait_time, perr>>
    /\ UNCHANGED PayloadRest

\* ui.py:167-172, src/beacon.py:9-17 with bluetoothctl.py:183-195  a number chosen in
\* the console menu: without the attribute the comparison raises AttributeError,
\* which nothing catches
Menu_Activate(e) ==
    /\ prog \in {"none", "cli"}
    /\ perr = "none"
    /\ prog' = "cli"
    /\ entry' = e
    /\ history' = IF history = "fresh" THEN "first" ELSE "later"
    /\ IF mfg_attr = "unset"
       THEN /\ perr' = "AttributeError"
            /\ plines' = 0
            /\ UNCHANGED <<mfg_attr, mfg_payload, active, debug>>
       ELSE /\ plines' = IF mfg_attr = "set" /\ mfg_payload = MenuPayload(e) THEN 0 ELSE 6
            /\ mfg_attr' = "set"
            /\ mfg_payload' = MenuPayload(e)
            /\ active' = MenuName(e)
            /\ debug' = MenuPayload(e)
            /\ UNCHANGED perr
    /\ UNCHANGED <<wait_time, looping>>
    /\ UNCHANGED PayloadRest

\* ui.py:142, 165, src/beacon.py:45-48 with bluetoothctl.py:197-199  S in the console menu
Menu_Stop ==
    /\ prog \in {"none", "cli"}
    /\ perr = "none"
    /\ prog' = "cli"
    /\ mfg_attr' = "None"
    /\ mfg_payload' = <<>>
    /\ active' = "None (Stopped)"
    /\ debug' = <<>>
    /\ history' = "later"
    /\ UNCHANGED <<entry, plines, wait_time, perr, looping>>
    /\ UNCHANGED PayloadRest

PayloadNext ==
    \/ \E e \in Entries : Toolbox_Start(e)
    \/ Toolbox_Refresh
    \/ Toolbox_Stop
    \/ \E e \in Entries : Menu_Activate(e)
    \/ Menu_Stop

PayloadSpec == PayloadInit /\ [][PayloadNext]_vars

\* ======================================================================= ReaderSpec
\* The reader thread of BluetoothCtl and a consumer (get_info) on the response queue.
\* QueueMax stands for maxsize=500; the lines are numbered as they are read.
ReaderInit == Init

ReaderRest == <<mgrVars, connVars, loopVars, threadVars, uiVars, sessVars, discVars, lost, bridgeVars, remoteVars, inputVars, shaperVars, codecVars, audioVars, beaconVars, payloadVars, guardVars, visitVars, profileVars>>

\* bluetoothctl.py:101-108  select reports data and readline returns a line
Reader_Read ==
    /\ rdpc = "select"
    /\ nread < MaxRead
    /\ nread' = nread + 1
    /\ rdline' = nread + 1
    /\ rdpc' = "put"
    /\ UNCHANGED <<resp_queue, lastput>>
    /\ UNCHANGED ReaderRest

\* bluetoothctl.py:110-112  put_nowait(line): appended, or queue.Full
Reader_Put ==
    /\ rdpc = "put"
    /\ IF Len(resp_queue) < QueueMax
       THEN /\ resp_queue' = Append(resp_queue, rdline)
            /\ lastput' = "put"
            /\ rdpc' = "select"
       ELSE /\ rdpc' = "evict"
            /\ UNCHANGED <<resp_queue, lastput>>
    /\ UNCHANGED <<rdline, nread>>
    /\ UNCHANGED ReaderRest

\* bluetoothctl.py:113-117  get_nowait(): the oldest line goes, or the queue is empty
\* by now and queue.Empty is passed over, the line in hand with it
Reader_Evict ==
    /\ rdpc = "evict"
    /\ IF resp_queue = <<>>
       THEN /\ lastput' = "lost"
            /\ rdpc' = "select"
            /\ UNCHANGED resp_queue
       ELSE /\ resp_queue' = Tail(resp_queue)
            /\ rdpc' = "reput"
            /\ UNCHANGED lastput
    /\ UNCHANGED <<rdline, nread>>
    /\ UNCHANGED ReaderRest

\* bluetoothctl.py:115, 118-119  the second put_nowait(line); a queue.Full here
\* would end the thread
Reader_Reput ==
    /\ rdpc = "reput"
    /\ IF Len(resp_queue) < QueueMax
       THEN /\ resp_queue' = Append(resp_queue, rdline)
            /\ lastput' = "evicted"
            /\ rdpc' = "select"
       ELSE /\ rdpc' = "ended"
            /\ UNCHANGED <<resp_queue, lastput>>
    /\ UNCHANGED <<rdline, nread>>
    /\ UNCHANGED ReaderRest

\* bluetoothctl.py:158-161  get_info takes the next line
GetInfo_Get ==
    /\ resp_queue # <<>>
    /\ resp_queue' = Tail(resp_queue)
    /\ UNCHANGED <<rdpc, rdline, nread, lastput>>
    /\ UNCHANGED ReaderRest

ReaderNext ==
    \/ Reader_Read
    \/ Reader_Put
    \/ Reader_Evict
    \/ Reader_Reput
    \/ GetInfo_Get

ReaderSpec == ReaderInit /\ [][ReaderNext]_vars

\* ======================================================================== GuardSpec
\* The audio requests of the control loop (run_action "Audio", remote_sound_random) and
\* the _play_audio coroutines they submit to the event loop of the session. The
\* session is connected at first, as in RemoteSession; it may lose its link or be
\* disconnected, its loop is then closed by _connect_thread, and a later session
\* opens a new loop on the same ConnectionManager.
GuardInit == Init

GuardRest == <<mgrVars, connVars, loopVars, threadVars, uiVars, sessVars, discVars, lost, bridgeVars, remoteVars, inputVars, shaperVars, codecVars, audioVars, beaconVars, payloadVars, readerVars, visitVars, profileVars>>

Plays == 1..MaxPlays

\* the coroutines that have started and not finished on a loop that still runs
InFlight == {i \in Plays : ptask[i] \in {"group", "settle", "clip", "cooldown"}}

\* connect.py:152-165, 262-271  is_connected, then audio_in_progress, then
\* run_coroutine_threadsafe(self._play_audio(group, clip), self.conn.loop)
Play_Request ==
    /\ glink /\ gloop = "running"
    /\ ~audio_in_progress
    /\ nplays < MaxPlays
    /\ nplays' = nplays + 1
    /\ ptask' = [ptask EXCEPT ![nplays + 1] = "queued"]
    /\ UNCHANGED <<audio_in_progress, gframes, glink, gloop, gstop, nsess>>
    /\ UNCHANGED GuardRest

\* connect.py:172-174  the loop runs the coroutine: audio_in_progress = True
Play_Start(i) ==
    /\ gloop = "running"
    /\ ptask[i] = "queued"
    /\ audio_in_progress' = TRUE
    /\ ptask' = [ptask EXCEPT ![i] = "group"]
    /\ UNCHANGED <<gframes, glink, gloop, gstop, nplays, nsess>>
    /\ UNCHANGED GuardRest

\* connect.py:75, 32-43  the group write; without a link or on a failed write
\* send_audio returns False and _play_audio goes on to its finally block
Play_Group(i, ok) ==
    /\ gloop = "running"
    /\ ptask[i] = "group"
    /\ IF glink
       THEN /\ gframes' = Append(gframes, <<i, "group">>)
            /\ ptask' = [ptask EXCEPT ![i] = IF ok THEN "settle" ELSE "cooldown"]
       ELSE /\ ptask' = [ptask EXCEPT ![i] = "cooldown"]
            /\ UNCHANGED gframes
    /\ UNCHANGED <<audio_in_progress, glink, gloop, gstop, nplays, nsess>>
    /\ UNCHANGED GuardRest

\* connect.py:76  asyncio.sleep(0.1) returns
Play_Settle(i) ==
    /\ gloop = "running"
    /\ ptask[i] = "settle"
    /\ ptask' = [ptask EXCEPT ![i] = "clip"]
    /\ UNCHANGED <<audio_in_progress, gframes, glink, gloop, gstop, nplays, nsess>>
    /\ UNCHANGED GuardRest

\* connect.py:78  the clip write
Play_Clip(i) ==
    /\ gloop = "running"
    /\ ptask[i] = "clip"
    /\ gframes' = IF glink THEN Append(gframes, <<i, "clip">>) ELSE gframes
    /\ ptask' = [ptask EXCEPT ![i] = "cooldown"]
    /\ UNCHANGED <<audio_in_progress, glink, gloop, gstop, nplays, nsess>>
    /\ UNCHANGED GuardRest

\* connect.py:180-183  asyncio.sleep(0.2) returns and audio_in_progress = False
Play_Release(i) ==
    /\ gloop = "running"
    /\ ptask[i] = "cooldown"
    /\ audio_in_progress' = FALSE
    /\ ptask' = [ptask EXCEPT ![i] = "finished"]
    /\ UNCHANGED <<gframes, glink, gloop, gstop, nplays, nsess>>
    /\ UNCHANGED GuardRest

\* the droid goes out of reach: client.is_connected turns False
Guard_LinkLost ==
    /\ glink
    /\ glink' = FALSE
    /\ UNCHANGED <<audio_in_progress, ptask, gframes, gloop, gstop, nplays, nsess>>
    /\ UNCHANGED GuardRest

\* connect.py:185-189  disconnect_droid: conn.disconnect() is submitted and
\* loop.stop is scheduled
Guard_Disconnect ==
    /\ glink /\ gloop = "running"
    /\ ~gstop
    /\ gstop' = TRUE
    /\ UNCHANGED <<audio_in_progress, ptask, gframes, glink, gloop, nplays, nsess>>
    /\ UNCHANGED GuardRest

\* connect.py:136-148  _connect_thread leaves its wait (the link is down, or
\* run_until_complete raised on the stopped loop), disconnects and closes the
\* loop; the coroutines still pending on it are never resumed
Guard_LoopClose ==
    /\ gloop = "running"
    /\ ~glink \/ gstop
    /\ gloop' = "closed"
    /\ glink' = FALSE
    /\ ptask' = [i \in Plays |-> IF ptask[i] \in {"none", "finished"} THEN ptask[i] ELSE "abandoned"]
    /\ UNCHANGED <<audio_in_progress, gframes, gstop, nplays, nsess>>
    /\ UNCHANGED GuardRest

\* connect.py:112-133  a later session: connect_droid on the same ConnectionManager
\* opens a new loop and the link comes up
Guard_Reconnect ==
    /\ gloop = "closed"
    /\ nsess' = IF nsess < MaxSessions THEN nsess + 1 ELSE nsess
    /\ gloop' = "running"
    /\ glink' = TRUE
    /\ gstop' = FALSE
    /\ UNCHANGED <<audio_in_progress, ptask, gframes, nplays>>
    /\ UNCHANGED GuardRest

\* the steps the running event loop takes
LoopSteps ==
    \E i \in Plays :
        \/ Play_Start(i)
        \/ \E ok \in BOOLEAN : Play_Group(i, ok)
        \/ Play_Settle(i)
        \/ Play_Clip(i)
        \/ Play_Release(i)

GuardNext ==
    \/ Play_Request
    \/ \E i \in Plays : Play_Start(i)
    \/ \E i \in Plays, ok \in BOOLEAN : Play_Group(i, ok)
    \/ \E i \in Plays : Play_Settle(i)
    \/ \E i \in Plays : Play_Clip(i)
    \/ \E i \in Plays : Play_Release(i)
    \/ Guard_LinkLost
    \/ Guard_Disconnect
    \/ Guard_LoopClose
    \/ Guard_Reconnect

GuardSpec == GuardInit /\ [][GuardNext]_vars

\* the event loop runs its ready coroutines and timers for as long as it is open
GuardLiveSpec == GuardSpec /\ WF_vars(LoopSteps)

\* ======================================================================== VisitSpec
\* The remote menu is visited, left with B and visited again on one connected
\* session under the R-Arcade profile; the link may drop at any moment.
VisitInit == Init

VisitRest == <<mgrVars, connVars, loopVars, threadVars, uiVars, sessVars, discVars, lost, bridgeVars, remoteVars, inputVars, shaperVars, codecVars, audioVars, beaconVars, payloadVars, readerVars, guardVars, profileVars>>

VisitThrottle == {0, 40, 43, 100}
VisitHead == {0, 40}

\* connect.py:205-221  the speed a motor frame carries: below 0.05 it is the stop frame
FrameValue(c) == IF Abs(c) < StopBelow THEN 0 ELSE c

\* toolbox.py:739-747, 70  update(): the revert on a lost connection, else the
\* update function of the remote menu is entered
Visit_Update ==
    /\ vmenu = "remote" /\ vpc = "idle"
    /\ IF vlink
       THEN vpc' = "process" /\ UNCHANGED vmenu
       ELSE vmenu' = "main" /\ UNCHANGED vpc
    /\ UNCHANGED <<vlink, st_LAST, submittedFor, vstop, nvisits>>
    /\ UNCHANGED VisitRest

\* remote.py:109  state["LAST_<key>"] = speed after the call, whatever it did
Visit_Record(k, issued, speed, up) == IF k \in issued THEN speed[k] ELSE st_LAST[k]

\* toolbox.py:684-685, remote.py:17-59, 99-109, connect.py:195-221  process():
\* each motor whose speed changed gets its call, which submits a frame if the
\* session is connected, and the speed is recorded
Visit_Process(t, h) ==
    /\ vmenu = "remote" /\ vpc = "process"
    /\ LET speed == Mix(t, 0, h)
           issued == {k \in Motors : IssuesCommand(speed[k], st_LAST[k])}
       IN /\ submittedFor' = [k \in Motors |->
                IF k \in issued /\ vlink THEN FrameValue(Clamp(speed[k])) ELSE submittedFor[k]]
          /\ st_LAST' = [k \in Motors |-> Visit_Record(k, issued, speed, vlink)]
    /\ vpc' = "idle"
    /\ UNCHANGED <<vmenu, vlink, vstop, nvisits>>
    /\ UNCHANGED VisitRest

\* toolbox.py:675-678  B: the remote_stop thread is started and the menu is left
Visit_Back ==
    /\ vmenu = "remote" /\ vpc = "process"
    /\ vstop = "none"
    /\ vstop' = "pending"
    /\ vmenu' = "none"
    /\ vpc' = "idle"
    /\ UNCHANGED <<vlink, st_LAST, submittedFor, nvisits>>
    /\ UNCHANGED VisitRest

\* connect.py:285-295  remote_stop: a stop frame for each motor if connected
Visit_RemoteStop ==
    /\ vstop = "pending"
    /\ vstop' = "none"
    /\ submittedFor' = IF vlink THEN [k \in Motors |-> 0] ELSE submittedFor
    /\ UNCHANGED <<vmenu, vpc, vlink, st_LAST, nvisits>>
    /\ UNCHANGED VisitRest

\* toolbox.py:584-590  the remote submenu is chosen again
Visit_Enter ==
    /\ vmenu = "none" /\ vlink
    /\ nvisits < MaxVisits
    /\ nvisits' = nvisits + 1
    /\ vmenu' = "remote"
    /\ UNCHANGED <<vpc, vlink, st_LAST, submittedFor, vstop>>
    /\ UNCHANGED VisitRest

\* the droid goes out of reach
Visit_LinkLost ==
    /\ vlink
    /\ vlink' = FALSE
    /\ UNCHANGED <<vmenu, vpc, st_LAST, submittedFor, vstop, nvisits>>
    /\ UNCHANGED VisitRest

VisitNext ==
    \/ Visit_Update
    \/ \E t \in VisitThrottle, h \in VisitHead : Visit_Process(t, h)
    \/ Visit_Back
    \/ Visit_RemoteStop
    \/ Visit_Enter
    \/ Visit_LinkLost

VisitSpec == VisitInit /\ [][VisitNext]_vars

\* ====================================================================== ProfileSpec
\* The favorites store and the remote menu of a session connected to device 1.
ProfileInit == Init

ProfileRest == <<mgrVars, connVars, loopVars, threadVars, uiVars, sessVars, discVars, lost, bridgeVars, remoteVars, inputVars, shaperVars, codecVars, audioVars, beaconVars, payloadVars, readerVars, guardVars, visitVars>>

Macs == {1, 2, 3}

\* the device the session is connected to (ConnectionManager.active_mac)
ConnectedMac == 1

\* scan.py:110-125  the profile a scan result carries for a new droid
ScanProfiles == {"R-Arcade", "BB-Arcade"}

\* options.py:112-115  get_controller_profile: the stored name, or the fallback
get_controller_profile(mac) ==
    IF favorites[mac] \in {"absent", "nokey"} THEN "R_Arcade" ELSE favorites[mac]

\* toolbox.py:670, 681  <name> or "R-Arcade"
OrDefault(name) == IF name = "None" THEN "R-Arcade" ELSE name

\* options.py:28-41  the favorites are read from the settings file
Store_Load(f) ==
    /\ ~loaded
    /\ loaded' = TRUE
    /\ favorites' = f
    /\ UNCHANGED <<profile_name, routed>>
    /\ UNCHANGED ProfileRest

\* toolbox.py:405-412, options.py:75-83  a scanned droid is saved as a favorite
Store_Save(mac, p) ==
    /\ loaded
    /\ favorites[mac] = "absent"
    /\ favorites' = [favorites EXCEPT ![mac] = p]
    /\ UNCHANGED <<loaded, profile_name, routed>>
    /\ UNCHANGED ProfileRest

\* options.py:86-90  delete_favorite
Store_Delete(mac) ==
    /\ loaded
    /\ favorites[mac] # "absent"
    /\ favorites' = [favorites EXCEPT ![mac] = "absent"]
    /\ UNCHANGED <<loaded, profile_name, routed>>
    /\ UNCHANGED ProfileRest

\* toolbox.py:338-341, options.py:117-122  a profile is assigned to a favorite
Store_SetProfile(mac, p) ==
    /\ loaded
    /\ favorites[mac] # "absent"
    /\ favorites' = [favorites EXCEPT ![mac] = p]
    /\ UNCHANGED <<loaded, profile_name, routed>>
    /\ UNCHANGED ProfileRest

\* toolbox.py:666-685, remote.py:17-20  a frame of the remote menu: the profile is
\* looked up and process() called with it; an unknown name makes process() return
Profile_Tick ==
    /\ loaded
    /\ LET name == OrDefault(get_controller_profile(ConnectedMac))
       IN /\ profile_name' = name
          /\ routed' = IF name \in Profiles THEN "routed" ELSE "ignored"
    /\ UNCHANGED <<favorites, loaded>>
    /\ UNCHANGED ProfileRest

ProfileNext ==
    \/ \E f \in [Macs -> {"absent", "nokey"} \cup Profiles] : Store_Load(f)
    \/ \E mac \in Macs, p \in ScanProfiles : Store_Save(mac, p)
    \/ \E mac \in Macs : Store_Delete(mac)
    \/ \E mac \in Macs, p \in Profiles : Store_SetProfile(mac, p)
    \/ Profile_Tick

ProfileSpec == ProfileInit /\ [][ProfileNext]_vars

\* ======================================================================== claims
\* the frames written by attempt a (the log without the discovery and link-open calls)
Frames(a) == SelectSeq(log[a], LAMBDA e : e \notin {"find", "open"})

\* every thread started so far has run to its end
AllThreadsDone ==
    /\ \A a \in Attempts : pc[a] \in {"unused", "rejected", "done"}
    /\ pd = 0
    /\ dd \in {"none", "done"}

\* C1: at most one connect worker thread is alive at any time, in every interleaving
\* of connect_droid, the worker, update(), _handle_disconnect and disconnect_droid.
C1_AtMostOneWorker == Cardinality({a \in Attempts : WorkerAlive(a)}) <= 1

\* C2: a connect request whose guard finds is_connecting true is rejected: it starts
\* no worker, issues no discovery, link-open or write call, and leaves last_error,
\* active_mac and active_name unchanged.
C2_SecondConnectRejected ==
    /\ [][\A a \in Attempts :
            (pc[a] = "cd_check" /\ is_connecting /\ pc'[a] # "cd_check")
            => /\ pc'[a] = "rejected"
               /\ UNCHANGED <<last_error, active_mac, active_name, log, connVars, loopVars>>]_vars
    /\ [](\A a \in Attempts :
            pc[a] = "rejected" => log[a] = <<>> /\ loopState[a] = "none" /\ ~linkUp[a])
    /\ [][\A a \in Attempts : pc[a] = "rejected" => pc'[a] = "rejected"]_vars

C2_Witness == \E a \in Attempts : pc[a] = "rejected" /\ is_connecting

\* C3: when discovery finds the peer and link-open succeeds, connect writes exactly
\* three LOGON frames, each followed by a wait of 100 ms, then the confirmation audio
\* cue (group select, wait, clip), returns success, and the session is Connected.
C3_ThreeLogonFrames ==
    \A a \in Attempts :
        (outcome[a] \notin {"none", "opened", "notfound", "openraise", "timeout", "stopped"})
        => /\ Frames(a) = <<"LOGON", "sleep", "LOGON", "sleep", "LOGON", "sleep",
                            "AUDIO_GROUP", "sleep", "AUDIO_CLIP">>
           /\ outcome[a] = "success"
           /\ linkUp[a]

\* C4: if discovery finds no device or link-open raises, connect reports failure
\* (the worker sets the failure string), no frame is written, the session the attempt
\* opened is never connected, the worker's exit sets is_connecting false, the worker
\* thread ends, and when no other worker is alive nothing is connected at its end.
FailedEarly(a) == outcome[a] \in {"notfound", "openraise"}

C4_FailedConnectEndsIdle ==
    /\ [](\A a \in Attempts : FailedEarly(a) =>
            /\ Frames(a) = <<>>
            /\ ~linkUp[a]
            /\ pc[a] \in {"w_seterr", "w_finally", "w_close", "done"})
    /\ [][\A a \in Attempts : (FailedEarly(a) /\ pc[a] = "w_seterr" /\ pc'[a] # "w_seterr")
            => last_error' = "failed" /\ pc'[a] = "w_finally"]_vars
    /\ [][\A a \in Attempts : (FailedEarly(a) /\ pc[a] = "w_finally" /\ pc'[a] # "w_finally")
            => is_connecting' = FALSE /\ pc'[a] = "w_close"]_vars
    /\ [][\A a \in Attempts : (FailedEarly(a) /\ pc[a] = "w_close" /\ pc'[a] # "w_close")
            => /\ pc'[a] = "done"
               /\ (\A b \in Attempts \ {a} : ~WorkerAlive(b)) => ~IsConnected']_vars

C4_Witness ==
    \E a, b \in Attempts :
        /\ pc[a] = "done" /\ outcome[a] = "notfound"
        /\ pc[b] = "done" /\ outcome[b] = "openraise"
        /\ ~is_connecting /\ ~IsConnected

\* C5: every failed connect attempt surfaces exactly one error string: once every
\* worker has ended and update() has consumed last_error, the number of error strings
\* shown equals the number of failed attempts.
C5_ExactlyOneError ==
    (AllThreadsDone /\ last_error = "None" /\ ctl = "view")
    => errShown = Cardinality({a \in Attempts : pc[a] = "done"})

\* C6: write_gatt_char is invoked only on a session that is connected at that moment,
\* also by a write that passed the connected check and then waited for the lock.
C6_WriteOnlyWhileConnected == \A i \in 1..Len(wire) : wire[i].connected

C8_OneWriteInFlight == Cardinality({t \in Tasks : tpc[t] = "writing"}) <= 1

C8_Witness == \E t, u \in Tasks : tpc[t] = "writing" /\ tpc[u] = "lockwait"

\* C9: commands submitted for the same session are written in submission order
\* (tasks are numbered in the order _send_motor_direct submitted them).
C9_SubmissionOrder ==
    \A i, j \in 1..Len(wire) : i < j => wire[i].task < wire[j].task

\* two commands written, the second after waiting for the lock, a third still waiting
C9_Witness ==
    /\ Len(wire) = 2
    /\ \E t \in Tasks : tpc[t] = "lockwait"
    /\ tpc[wire[2].task] = "writing"

\* C10: after a user disconnect request made while connected, once every thread has
\* run to its end the session is Idle: every link is released, is_connected and
\* is_connecting are false.
C10_DisconnectReachesIdle ==
    (requested /\ AllThreadsDone)
    => /\ \A a \in Attempts : ~linkUp[a]
       /\ ~IsConnected
       /\ ~is_connecting

IdleAfterLoss ==
    /\ \A a \in lost : pc[a] = "done" /\ ~linkUp[a] /\ client # a
    /\ ~is_connecting
    /\ current_view # "connected" /\ submenu = "none"

C12_LinkLossReturnsToIdle ==
    /\ (lost # {}) ~> IdleAfterLoss
    /\ [][(ctl = "update" /\ ctl' = "view" /\ ~IsConnected)
            => (current_view' # "connected" /\ submenu' = "none")]_vars
    /\ [][\A a \in Attempts : (pc[a] = "unused" /\ pc'[a] # "unused")
            => (ctl = "view" /\ Target = "connect" /\ pc'[a] = "cd_check")]_vars

\* the connected view was shown, the link was lost, and the system is back in Idle
C12_Witness ==
    /\ lost # {}
    /\ IdleAfterLoss
    /\ ctl = "view"
    /\ \A a \in Attempts : pc[a] \in {"unused", "done"}


\* ---------------------------------------------------------------------------
\* C13: a connect attempt that runs into the overall timeout fails cleanly: the
\* worker reports the timeout in last_error, its exit sets is_connecting false, and
\* once the worker has ended the attempt's link is not up and the worker's event
\* loop is closed
TimedOut(a) == outcome[a] = "timeout"

C13_TimeoutFailsCleanly ==
    /\ [][\A a \in Attempts :
            (TimedOut(a) /\ pc[a] = "w_seterr" /\ pc'[a] # "w_seterr")
                => last_error' = "timeout"]_vars
    /\ [][\A a \in Attempts :
            (TimedOut(a) /\ pc[a] = "w_finally" /\ pc'[a] # "w_finally")
                => ~is_connecting']_vars
    /\ [](\A a \in Attempts :
            (TimedOut(a) /\ pc[a] = "done") => (~linkUp[a] /\ loopState[a] = "closed"))

\* ---------------------------------------------------------------------------
\* C14: the worker's event loop lives exactly as long as the worker: a loop exists
\* only for an attempt whose worker has started, a worker that has ended has closed
\* its loop, and so with no worker running no loop is open
C14_LoopLivesWithWorker ==
    \A a \in Attempts :
        /\ (loopState[a] # "none") <=> (pc[a] \in (WorkerPcs \ {"w_loop"}) \cup {"done"})
        /\ (pc[a] = "done") => (loopState[a] = "closed")
        /\ (~WorkerAlive(a)) => (loopState[a] \in {"none", "closed"})


\* ---------------------------------------------------------------------------
\* C15: no call of a command method raises, whatever the session's state when it
\* is called and whatever the worker does while it runs
C15_CommandsNeverRaise == mpc # "raised"


\* ---------------------------------------------------------------------------
\* C16: when B leaves the remote menu of a connected session, the stop frames of
\* motors 0, 1 and 2 have been submitted, in that order, by the time the menu is
\* left; stop frames are only ever submitted in that order; and no motion frame is
\* written after a stop frame
C16_StopFramesBeforeTeardown ==
    /\ [][(submenu = "remote" /\ submenu' = "none" /\ rs # "none" /\ IsConnected)
            => StopsIn(rsub') = StopFrames]_vars
    /\ [](\E n \in 0..3 : StopsIn(rsub) = SubSeq(StopFrames, 1, n))
    /\ [](\A i, j \in 1..Len(rwire) : (i < j /\ rwire[i] # "motion") => rwire[j] # "motion")


\* ---------------------------------------------------------------------------
\* C17: a mapped button that is pressed once, held and released invokes its method
\* exactly once: never more than once, and once the press is over and no longer
\* pending the method has been invoked
C17_OncePerPress ==
    \A b \in Buttons :
        /\ fired[b] <= 1
        /\ (phys[b] = "up" /\ ~keys_pressed[b]) => fired[b] = 1


C19_SphereHysteresis ==
    [][\A i \in 1..Len(bbcmds') :
        LET c == bbcmds'[i]
            v == IF c.cmd = "bb_drive" THEN bbIntent'[1] ELSE bbIntent'[2]
            was == IF c.cmd = "bb_drive" THEN bbLast[1] ELSE bbLast[2]
        IN IF c.speed # 0
           THEN v - was > BBStep \/ was - v > BBStep
           ELSE v = 0 /\ was # 0]_vars

\* ---------------------------------------------------------------------------
\* C20: a motor whose last command was dropped gets its command again on the next
\* tick on which the intent is the same
C20_DroppedCommandReissued ==
    [][\A k \in Motors :
        (pending[k] /\ intent'[k] = intent[k] /\ <<intent, emit, pending>>' # <<intent, emit, pending>>)
            => emit'[k] # <<>>]_vars


\* ---------------------------------------------------------------------------
\* C21: every speed a tick passes to remote_throttle_left, remote_throttle_right or
\* remote_head lies in [-1, 1], whatever the throttle and steer intents add up to
C21_SpeedsClamped ==
    \A k \in Motors : emit[k] # <<>> => (emit[k][1] <= FullSpeed /\ emit[k][1] >= -FullSpeed)

\* throttle 1.0 with steer 0.43: LEFT is computed as 1.43 and passed as 1.0
C21_Witness == intent["LEFT"] = 143 /\ emit["LEFT"] = <<100>>


\* C22: under a sphere profile the speed byte passed to bb_drive never exceeds
\* int(255 * 0.8) = 204 and the one passed to bb_rotate never exceeds
\* int(255 * 0.35) = 89, for every axis value in [-1, 1]; both fit in one byte
C22_BBSpeedBytes ==
    \A i \in 1..Len(bbcmds) :
        /\ bbcmds[i].speed \in 0..255
        /\ bbcmds[i].cmd = "bb_drive" => bbcmds[i].speed <= 204
        /\ bbcmds[i].cmd = "bb_rotate" => bbcmds[i].speed <= 89
\* full deflection of both axes: the two limits are reached
C22_Witness ==
    /\ Abs(bbIntent[1]) = 100 /\ Abs(bbIntent[2]) = 100
    /\ \E i \in 1..Len(bbcmds) : bbcmds[i].cmd = "bb_drive" /\ bbcmds[i].speed = 204
    /\ \E i \in 1..Len(bbcmds) : bbcmds[i].cmd = "bb_rotate" /\ bbcmds[i].speed = 89


\* C23: for |speed| < 0.05 the motor command is the stop frame
\* 27 00 05 44 <motorId> 00 00 00 of that motor, whatever the sign of the speed and
\* on every call, for motor ids 0, 1 and 2
C23_StopFrame ==
    \A i \in 1..Len(mcall) :
        Abs(mcall[i].speed) < 5 => mframe = <<39, 0, 5, 68, mcall[i].motor, 0, 0, 0>>
\* the head called with -0.04
C23_Witness == mcall = <<[motor |-> 2, speed |-> -4]>> /\ mframe = <<39, 0, 5, 68, 2, 0, 0, 0>>


\* the MOTOR_DIRECT frame of the spec for a motor and a speed in hundredths: direction
\* in the high nibble, motor id in the low one, |speed| mapped linearly from [0, 1]
\* onto [0x60, 0xFF], ramp 01 2C
DirectFrame(motor, speed) ==
    <<39, 0, 5, 68, (IF speed > 0 THEN 0 ELSE 128) + motor, 96 + (Abs(speed) * 159) \div 100, 1, 44>>

\* C24: for 0.05 <= |speed| <= 1 and motor id 0, 1 or 2 the motor command is the
\* MOTOR_DIRECT frame: direction-motor byte, speed byte in [0x60, 0xFF] linear in
\* |speed|, ramp trailer 01 2C
C24_MotorDirectFrame ==
    \A i \in 1..Len(mcall) :
        (Abs(mcall[i].speed) >= 5 /\ Abs(mcall[i].speed) <= 100) =>
            /\ mframe = DirectFrame(mcall[i].motor, mcall[i].speed)
            /\ mframe[6] \in 96..255

\* C24 as it holds: the MOTOR_DIRECT frame for motors 0 and 1; for the head (motor 2)
\* the command is 2B 42 0F 48 44 02 <00 right / FF left> <int(|value| * 255)> 00 64 00 01
C24_DirectForThrottleOnly ==
    \A i \in 1..Len(mcall) :
        (Abs(mcall[i].speed) >= 5 /\ Abs(mcall[i].speed) <= 100) =>
            IF mcall[i].motor \in {0, 1}
            THEN /\ mframe = DirectFrame(mcall[i].motor, mcall[i].speed)
                 /\ mframe[6] \in 96..255
            ELSE /\ mframe = <<43, 66, 15, 72, 68, 2, IF mcall[i].speed > 0 THEN 0 ELSE 255,
                               (Abs(mcall[i].speed) * 255) \div 100, 0, 100, 0, 1>>
                 /\ mframe[8] \in 12..255
\* the right motor at full speed in reverse
C24_Witness == mcall = <<[motor |-> 1, speed |-> -100]>> /\ mframe = <<39, 0, 5, 68, 129, 255, 1, 44>>


\* the deadzone of the spec: values below 0.15 in magnitude become 0, others are kept
Deadzone(v) == IF v > -15 /\ v < 15 THEN 0 ELSE v

\* C25: every analog intent (throttle, steer, head) passes the deadzone before it is
\* mixed: the motor speeds of an R- tick and the drive and head values of a BB- tick
\* are computed from the values with |v| < 0.15 replaced by 0 and the others unchanged
C25_DeadzoneBeforeMix ==
    /\ active_profile \in {"R-Arcade", "R-Racing"} =>
           /\ intent["LEFT"] = Deadzone(axes[1]) + Deadzone(axes[2])
           /\ intent["RIGHT"] = Deadzone(axes[1]) - Deadzone(axes[2])
           /\ intent["HEAD"] = Deadzone(axes[3])
    /\ active_profile = "BB-Arcade" =>
           bbIntent = <<Deadzone(axes[1]), Deadzone(axes[3])>>
\* throttle 0.10 is dropped, steer 0.43 is kept
C25_Witness ==
    /\ axes = <<10, 43, 0>>
    /\ intent["LEFT"] = 43 /\ intent["RIGHT"] = -43


\* C26: an audio command writes the group-select frame first and the clip-play frame
\* second, at least 100 ms after the group write; the clip-play frame is never written
\* when the group-select write did not succeed
C26_GroupThenClip ==
    /\ Len(awrites) <= 2
    /\ Len(awrites) >= 1 => awrites[1].frame = <<39, 66, 15, 68, 68, 0, 31, aargs[1]>>
    /\ Len(awrites) = 2 =>
           /\ awrites[2].frame = <<39, 66, 15, 68, 68, 0, 24, aargs[2]>>
           /\ awrites[1].ok
           /\ awrites[2].at >= 2
\* group 2, clip 3: both frames written, the second exactly 100 ms after the first
C26_Witness ==
    /\ aargs = <<2, 3>> /\ aret = "True"
    /\ Len(awrites) = 2 /\ awrites[2].at = 2 /\ awrites[2].ok


\* C27: of two consecutive broadcasts of the same payload with no stop in between,
\* the second sends no command, and the two together send one advertise sequence
C27_BroadcastIdempotent ==
    \A i \in 1..Len(lastcall) :
        lastcall[i].repeat => (lastcall[i].lines = 0 /\ runseqs = 1)
\* a refresh of the running beacon: the same payload again
C27_Witness ==
    /\ lastcall = <<[payload |-> "0x0183:0x0A 0x04 0x01 0x02 0xA6 0x01", lines |-> 0, repeat |-> TRUE]>>
    /\ runseqs = 1

\* C28: while the beacon is active with an unchanged payload, every refresh of the
\* loop sends the advertise sequence again
C28_RefreshReissues ==
    \A i \in 1..Len(lastcall) : lastcall[i].repeat => lastcall[i].lines = 6

\* C29: from the return of stop() to the next start request no advertise-enable is
\* sent and the exposed state stays cleared (current_active "None", debug payload
\* empty), however stop() interleaves with a running loop or a start still launching
C29_StopIsFinal ==
    stopped =>
        /\ current_active = "None"
        /\ debug_payload = ""
        /\ \A k \in (stopmark + 1)..Len(cmd_queue) : cmd_queue[k].cmd # "advertise on"

\* C30: the six lines of a payload change reach bluetoothctl in order (advertise off,
\* menu advertise, clear, manufacturer, back, advertise on) with no line of another
\* command between them
C30_SequenceUnbroken ==
    \A k \in 1..Len(Stdin) :
        (Stdin[k].by = "bcast" /\ (k = 1 \/ Stdin[k - 1].call # Stdin[k].call)) =>
            \A n \in 0..5 :
                k + n <= Len(Stdin) =>
                    /\ Stdin[k + n].call = Stdin[k].call
                    /\ \E target \in Targets : Stdin[k + n].cmd = BroadcastLines(target)[n + 1]


\* C31: the refresh interval of a location beacon is max(1.0, cooldown byte * 5)
\* seconds and that of a droid beacon 2.0 seconds, for every entry of the tables
C31_RefreshInterval ==
    (prog = "toolbox" /\ looping) =>
        IF entry[1] = "location"
        THEN /\ wait_time >= 10
             /\ wait_time >= LOCATIONS[entry[3]][3] * 50
             /\ wait_time = 10 \/ wait_time = LOCATIONS[entry[3]][3] * 50
        ELSE wait_time = 20
\* zone 5 with cooldown byte 2: 10.0 seconds
C31_Witness == looping /\ entry = <<"location", "", 5>> /\ wait_time = 100


\* C38: the zone byte of a broadcast location beacon is the zone id stored first in
\* the selected LOCATIONS entry and the cooldown byte its third element, for every
\* entry, also 8 and 9 whose key differs from the zone id
C38_ZoneByteFromEntry ==
    (Len(entry) = 3 /\ entry[1] = "location" /\ Len(debug) = 6) =>
        /\ debug[3] = LOCATIONS[entry[3]][1]
        /\ debug[4] = LOCATIONS[entry[3]][3]


\* C40: the first broadcast on a freshly constructed controller, with no
\* stop_advertising before it, does not fail: it sends the six lines, records the
\* payload as last sent and updates the active label and the debug payload
C40_FirstBroadcastWorks ==
    history = "first" =>
        /\ perr = "none"
        /\ plines = 6
        /\ mfg_attr = "set"
        /\ mfg_payload = debug
        /\ Len(debug) = 6
        /\ active \notin {"None", "None (Stopped)"}


\* C32: the response queue never holds more than its maximum (500 lines); a line that
\* arrives while the queue is full is appended after the oldest line was removed, and
\* the reader never blocks or ends, also while get_info removes lines
C32_QueueKeepsNewest ==
    /\ Len(resp_queue) <= QueueMax
    /\ lastput # "lost"
    /\ rdpc # "ended"


\* C33: at most one audio sequence is in flight: a second _play_audio never starts
\* before the first has finished, and the frames of two requests never interleave
C33_OneAudioInFlight ==
    /\ Cardinality(InFlight) <= 1
    /\ \A a, b, c \in 1..Len(gframes) :
          (a < b /\ b < c /\ gframes[a][1] = gframes[c][1]) => gframes[b][1] = gframes[a][1]

\* C34: every audio request eventually releases the guard: once audio_in_progress is
\* set it becomes false again, also when the send fails, the session is disconnected
\* or its loop is closed during the sequence
C34_GuardReleased == audio_in_progress ~> ~audio_in_progress


\* C35: a motion that was commanded nonzero is stopped by a command of its own kind on
\* the first tick on which its intent is zero: a motor gets its zero speed, the sphere
\* drive gets bb_drive(0, 0) and the sphere head gets bb_rotate(0, 0), also on the
\* tick on which drive and head are both zero
C35_StoppedByOwnKind ==
    [][/\ active_profile \in {"R-Arcade", "R-Racing"} =>
            \A k \in Motors : (intent'[k] = 0 /\ lastEmitted[k] # 0) => emit'[k] = <<0>>
       /\ active_profile = "BB-Arcade" =>
            /\ (bbIntent'[1] = 0 /\ bbLast[1] # 0) =>
                  \E i \in 1..Len(bbcmds') : bbcmds'[i].cmd = "bb_drive" /\ bbcmds'[i].speed = 0
            /\ (bbIntent'[2] = 0 /\ bbLast[2] # 0) =>
                  \E i \in 1..Len(bbcmds') : bbcmds'[i].cmd = "bb_rotate" /\ bbcmds'[i].speed = 0]_vars


\* C36: the value the shaper records as last emitted for a motor always matches the
\* most recent frame submitted for that motor: it is not nonzero after the stop
\* frames of remote_stop, and not changed by a command that was dropped
C36_RecordMatchesFrame ==
    \A k \in Motors : FrameValue(Clamp(st_LAST[k])) = submittedFor[k]


\* C37: at most one beacon refresh loop is running at any time, whatever the order and
\* timing of the start and stop requests
C37_OneRefreshLoop ==
    Cardinality({i \in DOMAIN kpc : kpc[i] \notin {"none", "dead"}}) <= 1


\* C39: the profile name process() is called with in the remote menu always names an
\* entry of CONTROLLER_PROFILES, so the intents are routed, also when the connected
\* device has no favorite entry or its entry carries no profile
C39_ProfileIsKnown ==
    /\ profile_name # "None" => profile_name \in Profiles
    /\ routed # "ignored"

====
